---- MODULE Spec2Model ----
(***************************************************************************)
(* FileFlow (src/src/Logic_FileFlow.py): the concurrent                    *)
(* scan / classify / dedup / move engine of FileFlowMobileEnhanced.        *)
(*                                                                         *)
(* A path is a record [dir, stem, ext]: dir is the sequence of directory   *)
(* components from the root, stem and ext are pathlib's Path.stem and      *)
(* Path.suffix, so that Path.name = stem \o ext.  File names are strings   *)
(* and are built as the code builds them (f"{stem}_{counter}{suffix}").    *)
(*                                                                         *)
(* Five operations are modelled, each with its own specification:          *)
(*   Spec / FairSpec : smart_organize_threaded                             *)
(*   ScanSpec        : scan_files_threaded                                 *)
(*   DupSpec         : find_duplicates_threaded                            *)
(*   SweepSpec       : clean_temp_files                                    *)
(*   AnaSpec         : analyze_directory_threaded                          *)
(* EngineSpec is one call of any of them, ClassSpec runs the category      *)
(* loops of organize_file and analyze_file on drawn tables, and TopSpec is *)
(* the end of an analysis of a directory of more than TopN files.          *)
(***************************************************************************)
EXTENDS Integers, Sequences, FiniteSets, TLC

VARIABLES
    \* ---- smart_organize_threaded ----
    fs,               \* the files on disk: path -> content
    dirs,             \* the directories on disk (sequences of components)
    all_files,        \* the scanned files handed to the executor
    max_workers,      \* width of the ThreadPoolExecutor
    phase,            \* position of smart_organize_threaded itself
    pc,               \* position of each organize_file task
    counter,          \* organize_file's local counter
    new_path,         \* organize_file's local new_path
    result,           \* what organize_file returned
    collected,        \* futures already consumed from as_completed
    organized_count,
    error_count,
    \* ---- scan_files_threaded ----
    s_dirs,           \* the directories on disk (empty: the root is missing)
    s_files,          \* the regular files on disk
    s_denied,         \* directories whose listing raises PermissionError
    s_links,          \* symbolic links to directories: [link, target]
    s_workers,        \* max_workers
    rich,             \* RICH_AVAILABLE
    s_phase,          \* position of scan_files_threaded itself
    directories,      \* the list built by the directory pre-pass
    s_pc,             \* position of each scan_directory task
    local_files,      \* what each scan_directory task returned
    s_collected,      \* futures already consumed from as_completed
    s_all_files,      \* scan_files_threaded's all_files
    scan_results_queue,
    scan_total,       \* len(directories), the total of the progress display
    completed_dirs,   \* the directories reported as scanned
    \* ---- find_duplicates_threaded ----
    d_root,           \* path.exists()
    d_fs,             \* the files on disk: path -> content
    d_alias,          \* scanned paths that lead through a symlinked directory
    d_all_files,      \* the scanned list, in submission order
    d_workers,        \* max_workers
    auto_remove,
    d_phase,          \* position of find_duplicates_threaded itself
    d_pc,             \* position of each get_file_hash task
    d_hash,           \* what each get_file_hash task returned
    d_collected,      \* futures already consumed from as_completed
    hash_to_files,    \* digest -> list of paths
    hash_order,       \* the digests in dict insertion order
    duplicates,       \* the digests kept by the len(files) > 1 filter
    total_duplicates,
    remove_confirm,   \* the answer to "Remove ... duplicate files?"
    duplicate_size,   \* the "space wasted" figure, reported again as freed
    rm_pos,           \* how many unlink() calls the removal loop has made
    removed,
    unlink_calls,     \* the paths unlink() was called on, in order
    unlink_failed,    \* the paths whose unlink() raised
    \* ---- clean_temp_files ----
    c_dirs,           \* the directories on disk (empty: the root is missing)
    c_files,          \* the regular files on disk
    c_denied,         \* directories that rglob cannot list
    c_confirm,        \* the confirm parameter
    c_phase,          \* position of clean_temp_files itself
    c_pos,            \* how many items the rglob loop has visited
    temp_files,
    total_size,
    c_reported,       \* the count and size printed by the report
    c_proceed,        \* the answer to "Delete all temporary files?"
    c_del_pos,        \* how many turns the deletion loop has made
    deleted_count,
    deleted_size,
    c_failed,         \* the candidates whose stat() or unlink() raised
    \* ---- analyze_directory_threaded ----
    a_root,           \* path.exists()
    a_all_files,      \* the scanned list, in submission order
    a_unstatable,     \* the scanned files whose stat() raises
    a_workers,        \* max_workers
    a_phase,          \* position of analyze_directory_threaded itself
    a_pc,             \* position of each analyze_file task
    a_result,         \* what each analyze_file task returned
    a_collected,      \* futures already consumed from as_completed
    file_stats,       \* the statistics record
    \* ---- the category loops of organize_file and analyze_file ----
    k_table,          \* self.file_categories, in iteration order
    k_ext,            \* file_ext, the lower-cased suffix
    k_pc,             \* position of each caller
    k_i,              \* how many table entries each caller's loop has passed
    k_category        \* the category each caller has chosen

orgVars == <<fs, dirs, all_files, max_workers, phase, pc, counter, new_path,
             result, collected, organized_count, error_count>>
scanEnv == <<s_dirs, s_files, s_denied, s_links, s_workers, rich>>
scanProgress == <<scan_total, completed_dirs>>
scanVars == <<scanEnv, s_phase, directories, s_pc, local_files, s_collected,
              s_all_files, scan_results_queue, scanProgress>>
dupVars == <<d_root, d_fs, d_alias, d_all_files, d_workers, auto_remove, d_phase, d_pc, d_hash,
             d_collected, hash_to_files, hash_order, duplicates, total_duplicates,
             remove_confirm, duplicate_size, rm_pos, removed, unlink_calls,
             unlink_failed>>
sweepVars == <<c_dirs, c_files, c_denied, c_confirm, c_phase, c_pos, temp_files,
               total_size, c_reported, c_proceed, c_del_pos, deleted_count,
               deleted_size, c_failed>>
anaVars == <<a_root, a_all_files, a_unstatable, a_workers, a_phase, a_pc,
             a_result, a_collected, file_stats>>
classVars == <<k_table, k_ext, k_pc, k_i, k_category>>
vars == <<orgVars, scanVars, dupVars, sweepVars, anaVars, classVars>>

\* the variables of the other operations, which an operation leaves alone
notOrg == <<scanVars, dupVars, sweepVars, anaVars, classVars>>
notScan == <<orgVars, dupVars, sweepVars, anaVars, classVars>>
notDup == <<orgVars, scanVars, sweepVars, anaVars, classVars>>
notSweep == <<orgVars, scanVars, dupVars, anaVars, classVars>>
notAna == <<orgVars, scanVars, dupVars, sweepVars, classVars>>
notClass == <<orgVars, scanVars, dupVars, sweepVars, anaVars>>

-----------------------------------------------------------------------------
(* Bounds of the model *)

\* largest number of files in the directory handed to organize
MaxFiles == 3
\* largest thread-pool width explored
MaxWorkers == 2

-----------------------------------------------------------------------------
(* Paths *)

Root == <<"root">>

P(d, s, e) == [dir |-> d, stem |-> s, ext |-> e]

NoPath == P(<<>>, "", "")

\* the directory of the end-to-end scenario: a.jpg, b.jpg, c.pdf and d.tmp
\* in the root, b.jpg holding the bytes of a.jpg
Scenario ==
    {P(Root, "a", ".jpg"), P(Root, "b", ".jpg"), P(Root, "c", ".pdf"),
     P(Root, "d", ".tmp")}

\* Path.name
Name(p) == p.stem \o p.ext

\* the components of the path itself, comparable with a directory
FullPath(p) == Append(p.dir, Name(p))

\* str.lower() on the suffixes that occur in the model
Lower(e) ==
    CASE e = ".JPG" -> ".jpg"
      [] e = ".PDF" -> ".pdf"
      [] OTHER -> e

\* self.file_categories, in dict (insertion) order
file_categories == <<
    [name |-> "Images",    exts |-> {".jpg", ".jpeg", ".png", ".gif", ".bmp", ".webp", ".heic", ".svg", ".tiff", ".ico"}],
    [name |-> "Videos",    exts |-> {".mp4", ".avi", ".mkv", ".mov", ".wmv", ".flv", ".webm", ".m4v", ".3gp", ".ogv"}],
    [name |-> "Audio",     exts |-> {".mp3", ".wav", ".flac", ".aac", ".ogg", ".m4a", ".wma", ".opus"}],
    [name |-> "Documents", exts |-> {".pdf", ".doc", ".docx", ".txt", ".rtf", ".odt", ".xls", ".xlsx", ".ppt", ".pptx"}],
    [name |-> "Archives",  exts |-> {".zip", ".rar", ".7z", ".tar", ".gz", ".bz2", ".xz", ".lzma"}],
    [name |-> "Code",      exts |-> {".py", ".js", ".html", ".css", ".java", ".cpp", ".c", ".php", ".rb", ".go", ".rs"}],
    [name |-> "APK",       exts |-> {".apk", ".xapk", ".aab"}],
    [name |-> "Fonts",     exts |-> {".ttf", ".otf", ".woff", ".woff2"}],
    [name |-> "Ebooks",    exts |-> {".epub", ".mobi", ".azw", ".azw3"}] >>

NoCategory == "<none>"

\* Classify with the comparison never matching: every file is uncategorized
ClassifyNeverMatches(file_ext) == NoCategory

\* lines 433-434: the first category, in table order, that lists file_ext
Classify(file_ext) ==
    LET hits == {i \in 1..Len(file_categories) : file_ext \in file_categories[i].exts}
    IN  IF hits = {} THEN NoCategory
        ELSE file_categories[CHOOSE i \in hits : \A j \in hits : i <= j].name

-----------------------------------------------------------------------------
(* The filesystem primitives organize_file uses *)

\* an existence test that sees directories only
ExistsIgnoringFiles(files, ds, p) == FullPath(p) \in ds

\* Path.exists(): a file or a directory sits at p
Exists(files, ds, p) == p \in DOMAIN files \/ FullPath(p) \in ds

\* Path.mkdir(exist_ok=True) raises FileExistsError when d is a regular file
MkdirFails(files, d) == \E p \in DOMAIN files : FullPath(p) = d

\* a move that leaves the source where it was: a copy
MoveFileKeepingSource(files, src, dst) ==
    [p \in DOMAIN files \cup {dst} |->
        IF p = dst THEN files[src] ELSE files[p]]

\* shutil.move(src, dst) on files: os.rename, which replaces an existing dst
MoveFile(files, src, dst) ==
    [p \in (DOMAIN files \ {src}) \cup {dst} |->
        IF p = dst THEN files[src] ELSE files[p]]

-----------------------------------------------------------------------------
(* smart_organize_threaded *)

\* The files a directory may hold before organize runs, with their content.
Candidates ==
    (P(<<"root", "a">>, "x", ".jpg")        :> 1) @@
    (P(<<"root", "b">>, "x", ".jpg")        :> 2) @@
    (P(<<"root", "Images">>, "x", ".jpg")   :> 3) @@
    (P(<<"root", "Images">>, "x_1", ".jpg") :> 4) @@
    (P(<<"root", "a">>, "y", ".xyz")        :> 5) @@
    (P(<<"root", "Others">>, "y", ".xyz")   :> 6) @@
    (P(Root, "Documents", "")               :> 7) @@
    (P(<<"root", "a">>, "c", ".PDF")        :> 8)

\* the content of the files of the scenario directory
ScenarioContent ==
    (P(Root, "a", ".jpg") :> 9) @@ (P(Root, "b", ".jpg") :> 9) @@
    (P(Root, "c", ".pdf") :> 10) @@ (P(Root, "d", ".tmp") :> 11)

\* counter += 1.  The counter is unbounded in the code; the model lets it
\* saturate at CounterCap, a value no terminating loop reaches past.
CounterCap == MaxFiles + 1

Bump(c) == IF c < CounterCap THEN c + 1 ELSE c

\* SuffixedPath with the counter incremented before it is used
SuffixedPathOffByOne(d, f, c) == P(d, f.stem \o "_" \o ToString(c + 1), f.ext)

\* lines 443-444: category_dir / f"{stem}_{counter}{suffix}"
SuffixedPath(d, f, c) == P(d, f.stem \o "_" \o ToString(c), f.ext)

\* lines 460-461: the Others loop builds the same string and drops it
OthersNextPath(cur, d, f, c) == cur

Running(f) == pc[f] \in {"check", "move", "ocheck", "obody", "omove"}

OrgInit ==
    /\ \E S \in {T \in SUBSET (DOMAIN Candidates) : Cardinality(T) <= MaxFiles}
                 \cup {Scenario},
          root_exists \in BOOLEAN :
          /\ ~root_exists => S = {}
          /\ fs = [p \in S |-> (Candidates @@ ScenarioContent)[p]]
          /\ dirs = IF root_exists THEN {Root} \cup {p.dir : p \in S} ELSE {}
          /\ all_files = S
          /\ pc = [p \in S |-> "pending"]
          /\ counter = [p \in S |-> 0]
          /\ new_path = [p \in S |-> NoPath]
          /\ result = [p \in S |-> "none"]
    /\ max_workers \in 1..MaxWorkers
    /\ phase = "called"
    /\ collected = {}
    /\ organized_count = 0
    /\ error_count = 0

\* a Decide that creates the Others directory before it asks
DecideAfterMkdir ==
    /\ phase = "called"
    /\ \E confirm \in BOOLEAN, proceed \in BOOLEAN :
          phase' = IF Root \notin dirs THEN "noroot"
                   ELSE IF all_files = {} THEN "empty"
                   ELSE IF confirm /\ ~proceed THEN "cancelled"
                   ELSE "organizing"
    /\ dirs' = IF Root \in dirs /\ all_files # {}
               THEN dirs \cup {Append(Root, "Others")} ELSE dirs
    /\ UNCHANGED <<fs, all_files, max_workers, pc, counter, new_path,
                   result, collected, organized_count, error_count,
                   notOrg>>

\* lines 380-420: the root is missing, nothing to organize, or the
\* confirmation is declined
Decide ==
    /\ phase = "called"
    /\ \E confirm \in BOOLEAN, proceed \in BOOLEAN :
          phase' = IF Root \notin dirs THEN "noroot"
                   ELSE IF all_files = {} THEN "empty"
                   ELSE IF confirm /\ ~proceed THEN "cancelled"
                   ELSE "organizing"
    /\ UNCHANGED <<fs, dirs, all_files, max_workers, pc, counter, new_path,
                   result, collected, organized_count, error_count,
                   notOrg>>

\* lines 429-436 and 452-455, 469: classify, create the directory, or skip
StartTask(f) ==
    /\ phase = "organizing"
    /\ pc[f] = "pending"
    /\ Cardinality({g \in all_files : Running(g)}) < max_workers
    /\ LET file_ext == Lower(f.ext)
           category == Classify(file_ext)
           target   == IF category # NoCategory THEN Append(Root, category)
                       ELSE Append(Root, "Others")
       IN  IF category = NoCategory /\ file_ext = ""
           THEN /\ pc' = [pc EXCEPT ![f] = "done"]
                /\ result' = [result EXCEPT ![f] = "skipped"]
                /\ UNCHANGED <<dirs, counter, new_path>>
           ELSE IF MkdirFails(fs, target)
           THEN /\ pc' = [pc EXCEPT ![f] = "raised"]
                /\ UNCHANGED <<dirs, counter, new_path, result>>
           ELSE /\ dirs' = dirs \cup {target}
                /\ pc' = [pc EXCEPT ![f] =
                            IF category # NoCategory THEN "check" ELSE "ocheck"]
                /\ new_path' = [new_path EXCEPT ![f] = P(target, f.stem, f.ext)]
                /\ counter' = [counter EXCEPT ![f] = 1]
                /\ UNCHANGED result
    /\ UNCHANGED <<fs, all_files, max_workers, phase, collected,
                   organized_count, error_count,
                   notOrg>>

\* lines 442-445: one evaluation of the while condition, categorized file
Check(f) ==
    /\ pc[f] = "check"
    /\ IF Exists(fs, dirs, new_path[f])
       THEN /\ new_path' = [new_path EXCEPT ![f] =
                               SuffixedPath(new_path[f].dir, f, counter[f])]
            /\ counter' = [counter EXCEPT ![f] = Bump(counter[f])]
            /\ UNCHANGED pc
       ELSE /\ pc' = [pc EXCEPT ![f] = "move"]
            /\ UNCHANGED <<new_path, counter>>
    /\ UNCHANGED <<fs, dirs, all_files, max_workers, phase, result, collected,
                   organized_count, error_count,
                   notOrg>>

\* line 459: one evaluation of the while condition, Others file
OCheck(f) ==
    /\ pc[f] = "ocheck"
    /\ pc' = [pc EXCEPT ![f] =
                 IF Exists(fs, dirs, new_path[f]) THEN "obody" ELSE "omove"]
    /\ UNCHANGED <<fs, dirs, all_files, max_workers, phase, new_path, counter,
                   result, collected, organized_count, error_count,
                   notOrg>>

\* lines 460-462: the body of the while loop, Others file; control returns
\* to the condition
OBody(f) ==
    /\ pc[f] = "obody"
    /\ new_path' = [new_path EXCEPT ![f] =
                       OthersNextPath(new_path[f], new_path[f].dir, f, counter[f])]
    /\ counter' = [counter EXCEPT ![f] = Bump(counter[f])]
    /\ pc' = [pc EXCEPT ![f] = "ocheck"]
    /\ UNCHANGED <<fs, dirs, all_files, max_workers, phase, result, collected,
                   organized_count, error_count,
                   notOrg>>

\* a move whose failure ends the whole batch instead of being returned as
\* the outcome of the one file
MoveAbortingBatch(f) ==
    /\ pc[f] \in {"move", "omove"}
    /\ \E refused \in BOOLEAN :
          IF f \notin DOMAIN fs \/ refused
          THEN /\ result' = [result EXCEPT ![f] = "error"]
               /\ phase' = "done"
               /\ UNCHANGED fs
          ELSE /\ fs' = MoveFile(fs, f, new_path[f])
               /\ result' = [result EXCEPT ![f] = "success"]
               /\ UNCHANGED phase
    /\ pc' = [pc EXCEPT ![f] = "done"]
    /\ UNCHANGED <<dirs, all_files, max_workers, counter, new_path,
                   collected, organized_count, error_count,
                   notOrg>>

\* lines 447-450 and 464-467: shutil.move inside the try block.  The move
\* raises when the source is gone, or when the system refuses it.
Move(f) ==
    /\ pc[f] \in {"move", "omove"}
    /\ \E refused \in BOOLEAN :
          IF f \notin DOMAIN fs \/ refused
          THEN /\ result' = [result EXCEPT ![f] = "error"]
               /\ UNCHANGED fs
          ELSE /\ fs' = MoveFile(fs, f, new_path[f])
               /\ result' = [result EXCEPT ![f] = "success"]
    /\ pc' = [pc EXCEPT ![f] = "done"]
    /\ UNCHANGED <<dirs, all_files, max_workers, phase, counter, new_path,
                   collected, organized_count, error_count,
                   notOrg>>

\* lines 490-492 / 520-522
TallySuccess(f) ==
    IF pc[f] = "done" /\ result[f] = "success"
    THEN organized_count + 1 ELSE organized_count

\* TallyError without the except branch of the collecting loop
TallyErrorIgnoringRaise(f) ==
    IF pc[f] = "done" /\ result[f] = "error"
    THEN error_count + 1 ELSE error_count

\* lines 493-494, 499-500 / 523-524, 526-527
TallyError(f) ==
    IF pc[f] = "raised" \/ (pc[f] = "done" /\ result[f] = "error")
    THEN error_count + 1 ELSE error_count

\* lines 487-501 / 518-527: one turn of the as_completed loop
Collect(f) ==
    /\ phase = "organizing"
    /\ pc[f] \in {"done", "raised"}
    /\ f \notin collected
    /\ collected' = collected \cup {f}
    /\ organized_count' = TallySuccess(f)
    /\ error_count' = TallyError(f)
    /\ UNCHANGED <<fs, dirs, all_files, max_workers, phase, pc, counter,
                   new_path, result,
                   notOrg>>

\* lines 503-533: the executor is drained, the totals are reported
Finish ==
    /\ phase = "organizing"
    /\ collected = all_files
    /\ phase' = "done"
    /\ UNCHANGED <<fs, dirs, all_files, max_workers, pc, counter, new_path,
                   result, collected, organized_count, error_count,
                   notOrg>>

OrgNext ==
    \/ Decide
    \/ \E f \in all_files : StartTask(f)
    \/ \E f \in all_files : Check(f)
    \/ \E f \in all_files : OCheck(f)
    \/ \E f \in all_files : OBody(f)
    \/ \E f \in all_files : Move(f)
    \/ \E f \in all_files : Collect(f)
    \/ Finish

-----------------------------------------------------------------------------
(* scan_files_threaded *)

\* largest number of regular files in the scanned tree
MaxScanFiles == 3

\* The directory paths a scanned tree may hold, in the order rglob walks
\* them; root/link is a symbolic link and root/link/b a path through it
DirOrder ==
    << <<"root", "a">>, <<"root", "a", "b">>, <<"root", "c">>, <<"root", "link">>,
       <<"root", "link", "b">> >>

\* The trees of real directories explored: no root at all, the root alone,
\* a chain of two levels and two sibling directories
TreeChoices ==
    { {},
      {Root},
      {Root, <<"root", "a">>},
      {Root, <<"root", "a">>, <<"root", "a", "b">>},
      {Root, <<"root", "a">>, <<"root", "c">>} }

\* The symbolic link a tree may hold: root/link -> root/a
LinkChoice == [link |-> <<"root", "link">>, target |-> <<"root", "a">>]

\* The regular files a scanned tree may hold
ScanFileUniverse ==
    { P(Root, "r", ".txt"),
      P(<<"root", "a">>, "p", ".jpg"),
      P(<<"root", "a">>, "q", ".jpg"),
      P(<<"root", "a", "b">>, "n", ".mp3"),
      P(<<"root", "c">>, "m", "") }

Range(seq) == {seq[i] : i \in 1..Len(seq)}

\* the orders in which iterdir may yield the members of S
Orders(S) ==
    {q \in [1..Cardinality(S) -> S] : \A i, j \in 1..Cardinality(S) : q[i] = q[j] => i = j}

\* the real path that d names, once a symbolic link on the way is followed
LinkTarget(d) ==
    IF \E l \in s_links : Len(d) >= Len(l.link) /\ SubSeq(d, 1, Len(l.link)) = l.link
    THEN LET l == CHOOSE l \in s_links :
                     Len(d) >= Len(l.link) /\ SubSeq(d, 1, Len(l.link)) = l.link
         IN  l.target \o SubSeq(d, Len(l.link) + 1, Len(d))
    ELSE d

\* Path.is_dir(): follows symbolic links
IsDir(d) == LinkTarget(d) \in s_dirs

\* rglob descends only through real directories that it can list
Reachable(d) ==
    \A k \in 1..(Len(d) - 1) :
        SubSeq(d, 1, k) \in s_dirs /\ SubSeq(d, 1, k) \notin s_denied

IsDiscovered(d) == IsDir(d) /\ Reachable(d)

\* a pre-pass that globs "*" instead of rglob("*"): children of the root only
RGlobDirsNonRecursive == SelectSeq(DirOrder, LAMBDA d : IsDiscovered(d) /\ Len(d) = 2)

\* lines 311-313: every entry below the root that rglob yields and is_dir()
RGlobDirs == SelectSeq(DirOrder, IsDiscovered)

\* the files iterdir yields in directory d, named through d
FilesIn(d) == {P(d, f.stem, f.ext) : f \in {g \in s_files : g.dir = LinkTarget(d)}}

\* the entries a scan_directory task puts on the queue for directory d
QueueEntries(d, order) ==
    [i \in 1..Len(order) |-> <<"file", order[i]>>]
    \o SelectSeq([i \in 1..Len(DirOrder) |-> <<"dir", DirOrder[i]>>],
                 LAMBDA e : IsDir(e[2]) /\ SubSeq(e[2], 1, Len(e[2]) - 1) = d)

ScanRunning == {d \in DOMAIN s_pc : s_pc[d] = "running"}

ScanInit ==
    /\ \E T \in TreeChoices, F \in SUBSET ScanFileUniverse :
       \E D \in SUBSET T, L \in SUBSET {LinkChoice} :
          /\ Cardinality(F) <= MaxScanFiles
          /\ \A f \in F : f.dir \in T
          /\ Cardinality(D) <= 1
          /\ \A l \in L : l.target \in T
          /\ s_dirs = T
          /\ s_files = F
          /\ s_denied = D
          /\ s_links = L
    /\ s_workers \in 1..MaxWorkers
    /\ rich \in BOOLEAN
    /\ s_phase = "start"
    /\ directories = <<>>
    /\ s_pc = <<>>
    /\ local_files = <<>>
    /\ s_collected = {}
    /\ s_all_files = <<>>
    /\ scan_results_queue = <<>>
    /\ scan_total = 0
    /\ completed_dirs = 0

\* a pre-pass that leaves the root itself out of the list
ScanBeginWithoutRoot ==
    /\ s_phase = "start"
    /\ IF Root \notin s_dirs
       THEN /\ s_phase' = "done"
            /\ UNCHANGED <<directories, s_pc, local_files, scan_total>>
       ELSE /\ s_phase' = "scanning"
            /\ directories' = RGlobDirs
            /\ s_pc' = [d \in Range(RGlobDirs) |-> "pending"]
            /\ local_files' = [d \in Range(RGlobDirs) |-> <<>>]
            /\ scan_total' = Len(directories')
    /\ UNCHANGED <<scanEnv, s_collected, completed_dirs,
                   s_all_files, scan_results_queue, notScan>>

\* lines 284-313, 325, 335, 366: the root check, the directory pre-pass,
\* the progress total, and one task submitted for every listed directory
ScanBegin ==
    /\ s_phase = "start"
    /\ IF Root \notin s_dirs
       THEN /\ s_phase' = "done"
            /\ UNCHANGED <<directories, s_pc, local_files, scan_total>>
       ELSE /\ s_phase' = "scanning"
            /\ directories' = <<Root>> \o RGlobDirs
            /\ s_pc' = [d \in Range(<<Root>> \o RGlobDirs) |-> "pending"]
            /\ local_files' = [d \in Range(<<Root>> \o RGlobDirs) |-> <<>>]
            /\ scan_total' = Len(directories')
    /\ UNCHANGED <<scanEnv, s_collected, completed_dirs,
                   s_all_files, scan_results_queue, notScan>>

\* lines 329-332 / 365-366: a free worker takes the next submitted directory
StartScan(i) ==
    /\ s_phase = "scanning"
    /\ s_pc[directories[i]] = "pending"
    /\ \A j \in 1..(i - 1) : s_pc[directories[j]] # "pending"
    /\ Cardinality(ScanRunning) < s_workers
    /\ s_pc' = [s_pc EXCEPT ![directories[i]] = "running"]
    /\ UNCHANGED <<scanEnv, s_phase,
                   directories, local_files, s_collected, s_all_files,
                   scan_results_queue, scanProgress, notScan>>

\* a scan_directory whose PermissionError ends the whole scan
ListDirAborting(d) ==
    /\ s_pc[d] = "running"
    /\ IF LinkTarget(d) \in s_denied
       THEN /\ local_files' = [local_files EXCEPT ![d] = <<>>]
            /\ scan_results_queue' = Append(scan_results_queue, <<"error", d>>)
            /\ s_phase' = "done"
       ELSE /\ \E order \in Orders(FilesIn(d)) :
                 /\ local_files' = [local_files EXCEPT ![d] = order]
                 /\ scan_results_queue' = scan_results_queue \o QueueEntries(d, order)
            /\ UNCHANGED s_phase
    /\ s_pc' = [s_pc EXCEPT ![d] = "done"]
    /\ UNCHANGED <<scanEnv, directories, s_collected, s_all_files,
                   scanProgress, notScan>>

\* lines 295-307: scan_directory lists one directory
ListDir(d) ==
    /\ s_pc[d] = "running"
    /\ IF LinkTarget(d) \in s_denied
       THEN /\ local_files' = [local_files EXCEPT ![d] = <<>>]
            /\ scan_results_queue' = Append(scan_results_queue, <<"error", d>>)
       ELSE \E order \in Orders(FilesIn(d)) :
              /\ local_files' = [local_files EXCEPT ![d] = order]
              /\ scan_results_queue' = scan_results_queue \o QueueEntries(d, order)
    /\ s_pc' = [s_pc EXCEPT ![d] = "done"]
    /\ UNCHANGED <<scanEnv, s_phase,
                   directories, s_collected, s_all_files, scanProgress, notScan>>

\* a merge that loses updates: the extended list is built from the list as
\* it was when the scan started
CollectScanLosingUpdates(d) ==
    /\ s_phase = "scanning"
    /\ s_pc[d] = "done"
    /\ d \notin s_collected
    /\ s_collected' = s_collected \cup {d}
    /\ s_all_files' = <<>> \o local_files[d]
    /\ scan_results_queue' = IF rich THEN <<>> ELSE scan_results_queue
    /\ completed_dirs' = completed_dirs + 1
    /\ UNCHANGED <<scanEnv, s_phase,
                   directories, s_pc, local_files, scan_total, notScan>>

\* lines 338-356 / 367-371: one turn of the as_completed loop, which counts
\* the directory as scanned
CollectScan(d) ==
    /\ s_phase = "scanning"
    /\ s_pc[d] = "done"
    /\ d \notin s_collected
    /\ s_collected' = s_collected \cup {d}
    /\ s_all_files' = s_all_files \o local_files[d]
    /\ scan_results_queue' = IF rich THEN <<>> ELSE scan_results_queue
    /\ completed_dirs' = completed_dirs + 1
    /\ UNCHANGED <<scanEnv, s_phase,
                   directories, s_pc, local_files, scan_total, notScan>>

\* lines 362-376: the executor is drained, all_files is returned
ScanFinish ==
    /\ s_phase = "scanning"
    /\ s_collected = DOMAIN s_pc
    /\ s_phase' = "done"
    /\ UNCHANGED <<scanEnv, directories,
                   s_pc, local_files, s_collected, s_all_files,
                   scan_results_queue, scanProgress, notScan>>

ScanNext ==
    \/ ScanBegin
    \/ \E i \in 1..Len(directories) : StartScan(i)
    \/ \E d \in DOMAIN s_pc : ListDir(d)
    \/ \E d \in DOMAIN s_pc : CollectScan(d)
    \/ ScanFinish

-----------------------------------------------------------------------------
(* find_duplicates_threaded *)

\* largest number of files handed to the duplicate finder
MaxDupFiles == 3

\* The paths the scan may have listed, in the order it lists them; the last
\* one leads through root/link, a symbolic link to the directory root/sub
DupOrder ==
    << P(Root, "a", ".jpg"), P(Root, "b", ".jpg"), P(Root, "c", ".pdf"),
       P(Root, "d", ".tmp"), P(Root, "e", ".png"),
       P(<<"root", "sub">>, "s", ".txt"), P(<<"root", "link">>, "s", ".txt") >>

\* the listed paths that lead through the symbolic link, and the file each
\* of them names
DupAlias ==
    (P(<<"root", "link">>, "s", ".txt") :> P(<<"root", "sub">>, "s", ".txt"))

\* The content of each file: a, b and e are byte-identical
DupContent ==
    (P(Root, "a", ".jpg") :> "A") @@ (P(Root, "b", ".jpg") :> "A") @@
    (P(Root, "c", ".pdf") :> "C") @@ (P(Root, "d", ".tmp") :> "D") @@
    (P(Root, "e", ".png") :> "A") @@ (P(<<"root", "sub">>, "s", ".txt") :> "S")

\* what get_file_hash returns for a file it could not read
None == "<None>"

\* hashlib.md5(...).hexdigest(): a 128-bit fingerprint, not injective.  "D"
\* and "S" stand for two different contents with the same MD5 digest.
MD5(content) ==
    CASE content = "A" -> "md5-1"
      [] content = "C" -> "md5-2"
      [] content = "D" -> "md5-3"
      [] content = "S" -> "md5-3"

\* the directory entry the operating system reaches from a listed path
Resolve(p) == IF p \in DOMAIN d_alias THEN d_alias[p] ELSE p

\* open(), stat() and unlink() find a file at the path
FileAt(p) == Resolve(p) \in DOMAIN d_fs

HashRunning == {f \in DOMAIN d_pc : d_pc[f] = "running"}

\* a filter that keeps every digest group, singletons included
IsDuplicateGroupAny(files) == Len(files) > 0

\* line 625: len(files) > 1
IsDuplicateGroup(files) == Len(files) > 1

RECURSIVE SumDupes(_)
\* line 635: sum(len(files) - 1 for files in duplicates.values())
SumDupes(hs) ==
    IF hs = <<>> THEN 0
    ELSE (Len(hash_to_files[Head(hs)]) - 1) + SumDupes(Tail(hs))

\* st_size of a file with the given content
Size(content) ==
    CASE content = "A" -> 10
      [] content = "C" -> 20
      [] content = "D" -> 30
      [] content = "S" -> 5

RECURSIVE SumWasted(_)
\* lines 642-643 / 661-662: duplicate_size += files[0].stat().st_size * (len(files) - 1)
SumWasted(hs) ==
    IF hs = <<>> THEN 0
    ELSE Size(d_fs[Resolve(hash_to_files[Head(hs)][1])]) * (Len(hash_to_files[Head(hs)]) - 1)
         + SumWasted(Tail(hs))

RECURSIVE AllButFirst(_)
\* lines 680-681: for files in duplicates.values(): for file_path in files[1:]
AllButFirst(hs) ==
    IF hs = <<>> THEN <<>>
    ELSE Tail(hash_to_files[Head(hs)]) \o AllButFirst(Tail(hs))

\* the paths the removal loop visits, in order
RemovalTargets == AllButFirst(duplicates)

DupInit ==
    /\ \E S \in {T \in SUBSET Range(DupOrder) : Cardinality(T) <= MaxDupFiles}
                 \cup {Scenario} :
          /\ \A p \in S \cap DOMAIN DupAlias : DupAlias[p] \in S
          /\ d_fs = [p \in S \ DOMAIN DupAlias |-> DupContent[p]]
          /\ d_alias = [p \in S \cap DOMAIN DupAlias |-> DupAlias[p]]
          /\ d_root \in (IF S = {} THEN BOOLEAN ELSE {TRUE})
          /\ d_all_files = SelectSeq(DupOrder, LAMBDA p : p \in S)
          /\ d_pc = [p \in S |-> "pending"]
          /\ d_hash = [p \in S |-> None]
    /\ d_workers \in 1..MaxWorkers
    /\ auto_remove \in BOOLEAN
    /\ d_phase = "called"
    /\ d_collected = {}
    /\ hash_to_files = <<>>
    /\ hash_order = <<>>
    /\ duplicates = <<>>
    /\ total_duplicates = 0
    /\ remove_confirm = FALSE
    /\ duplicate_size = 0
    /\ rm_pos = 0
    /\ removed = 0
    /\ unlink_calls = <<>>
    /\ unlink_failed = {}

\* lines 555-569: nothing scanned, or the hashing phase starts
DupBegin ==
    /\ d_phase = "called"
    /\ d_phase' = IF ~d_root THEN "noroot"
                  ELSE IF d_all_files = <<>> THEN "returned"
                  ELSE "hashing"
    /\ UNCHANGED <<d_root, d_fs, d_alias, d_all_files, d_workers, auto_remove, d_pc, d_hash,
                   d_collected, hash_to_files, hash_order, duplicates,
                   total_duplicates, remove_confirm, duplicate_size, rm_pos, removed, unlink_calls,
                   unlink_failed, notDup>>

\* lines 594-596 / 612-613: a free worker takes the next submitted file
StartHash(i) ==
    /\ d_phase = "hashing"
    /\ d_pc[d_all_files[i]] = "pending"
    /\ \A j \in 1..(i - 1) : d_pc[d_all_files[j]] # "pending"
    /\ Cardinality(HashRunning) < d_workers
    /\ d_pc' = [d_pc EXCEPT ![d_all_files[i]] = "running"]
    /\ UNCHANGED <<d_root, d_fs, d_alias, d_all_files, d_workers, auto_remove, d_phase, d_hash,
                   d_collected, hash_to_files, hash_order, duplicates,
                   total_duplicates, remove_confirm, duplicate_size, rm_pos, removed, unlink_calls,
                   unlink_failed, notDup>>

\* a get_file_hash that removes the file it has read
FinishHashConsumingFile(f) ==
    /\ d_pc[f] = "running"
    /\ \E unreadable \in BOOLEAN :
          /\ d_hash' = [d_hash EXCEPT ![f] =
                           IF unreadable \/ ~FileAt(f) THEN None
                           ELSE MD5(d_fs[Resolve(f)])]
          /\ d_fs' = IF unreadable \/ ~FileAt(f) THEN d_fs
                     ELSE [p \in DOMAIN d_fs \ {Resolve(f)} |-> d_fs[p]]
    /\ d_pc' = [d_pc EXCEPT ![f] = "done"]
    /\ UNCHANGED <<d_root, d_alias, d_all_files, d_workers, auto_remove, d_phase,
                   d_collected, hash_to_files, hash_order, duplicates,
                   total_duplicates, remove_confirm, duplicate_size, rm_pos, removed, unlink_calls,
                   unlink_failed, notDup>>

\* lines 571-580: get_file_hash; open() or read() may raise
FinishHash(f) ==
    /\ d_pc[f] = "running"
    /\ \E unreadable \in BOOLEAN :
          d_hash' = [d_hash EXCEPT ![f] =
                        IF unreadable \/ ~FileAt(f) THEN None
                        ELSE MD5(d_fs[Resolve(f)])]
    /\ d_pc' = [d_pc EXCEPT ![f] = "done"]
    /\ UNCHANGED <<d_root, d_fs, d_alias, d_all_files, d_workers, auto_remove, d_phase,
                   d_collected, hash_to_files, hash_order, duplicates,
                   total_duplicates, remove_confirm, duplicate_size, rm_pos, removed, unlink_calls,
                   unlink_failed, notDup>>

\* a collecting loop without the "if file_hash" test: a file that could not
\* be read is grouped under the missing digest
CollectHashGroupingUnhashed(f) ==
    /\ d_phase = "hashing"
    /\ d_pc[f] = "done"
    /\ f \notin d_collected
    /\ d_collected' = d_collected \cup {f}
    /\ IF d_hash[f] \in DOMAIN hash_to_files
       THEN /\ hash_to_files' = [hash_to_files EXCEPT ![d_hash[f]] = Append(@, f)]
            /\ UNCHANGED hash_order
       ELSE /\ hash_to_files' = hash_to_files @@ (d_hash[f] :> <<f>>)
            /\ hash_order' = Append(hash_order, d_hash[f])
    /\ UNCHANGED <<d_root, d_fs, d_alias, d_all_files, d_workers, auto_remove, d_phase, d_pc,
                   d_hash, duplicates, total_duplicates, remove_confirm, duplicate_size, rm_pos, removed,
                   unlink_calls, unlink_failed, notDup>>

\* lines 598-609 / 614-621: one turn of the as_completed loop
CollectHash(f) ==
    /\ d_phase = "hashing"
    /\ d_pc[f] = "done"
    /\ f \notin d_collected
    /\ d_collected' = d_collected \cup {f}
    /\ IF d_hash[f] # None
       THEN IF d_hash[f] \in DOMAIN hash_to_files
            THEN /\ hash_to_files' = [hash_to_files EXCEPT ![d_hash[f]] = Append(@, f)]
                 /\ UNCHANGED hash_order
            ELSE /\ hash_to_files' = hash_to_files @@ (d_hash[f] :> <<f>>)
                 /\ hash_order' = Append(hash_order, d_hash[f])
       ELSE UNCHANGED <<hash_to_files, hash_order>>
    /\ UNCHANGED <<d_root, d_fs, d_alias, d_all_files, d_workers, auto_remove, d_phase, d_pc,
                   d_hash, duplicates, total_duplicates, remove_confirm, duplicate_size, rm_pos, removed,
                   unlink_calls, unlink_failed, notDup>>

\* lines 624-633: keep the digests with more than one file
Group ==
    /\ d_phase = "hashing"
    /\ d_collected = DOMAIN d_pc
    /\ duplicates' = SelectSeq(hash_order, LAMBDA h : IsDuplicateGroup(hash_to_files[h]))
    /\ d_phase' = IF duplicates' = <<>> THEN "returned" ELSE "report"
    /\ UNCHANGED <<d_root, d_fs, d_alias, d_all_files, d_workers, auto_remove, d_pc, d_hash,
                   d_collected, hash_to_files, hash_order, total_duplicates, remove_confirm, duplicate_size,
                   rm_pos, removed, unlink_calls, unlink_failed, notDup>>

\* lines 635-679, 695-701: the report, then the removal question.  The
\* report calls files[0].stat() for every group, outside any try: when the
\* stat of the first member of the k-th group raises (the file was removed
\* by someone else since it was hashed), the error leaves
\* find_duplicates_threaded.  d_fs keeps what the operation itself found and
\* did.
Report ==
    /\ d_phase = "report"
    /\ total_duplicates' = SumDupes(duplicates)
    /\ \E k \in 0..Len(duplicates) :
          IF k > 0
          THEN /\ duplicate_size' = SumWasted(SubSeq(duplicates, 1, k - 1))
               /\ d_phase' = "crashed"
               /\ UNCHANGED remove_confirm
          ELSE /\ duplicate_size' = SumWasted(duplicates)
               /\ \E answer \in BOOLEAN :
                     /\ remove_confirm' = IF auto_remove THEN answer ELSE remove_confirm
                     /\ d_phase' = IF auto_remove /\ answer THEN "removing" ELSE "returned"
    /\ UNCHANGED <<d_root, d_fs, d_alias, d_all_files, d_workers, auto_remove, d_pc, d_hash,
                   d_collected, hash_to_files, hash_order, duplicates, rm_pos,
                   removed, unlink_calls, unlink_failed, notDup>>

\* a removal loop that gives up at the first unlink() that raises
UnlinkStopsAtFailure ==
    /\ d_phase = "removing"
    /\ rm_pos < Len(RemovalTargets)
    /\ LET file_path == RemovalTargets[rm_pos + 1]
       IN  /\ unlink_calls' = Append(unlink_calls, file_path)
           /\ \E refused \in BOOLEAN :
                 IF refused \/ ~FileAt(file_path)
                 THEN /\ unlink_failed' = unlink_failed \cup {file_path}
                      /\ rm_pos' = Len(RemovalTargets)
                      /\ UNCHANGED <<d_fs, removed>>
                 ELSE /\ d_fs' = [p \in DOMAIN d_fs \ {Resolve(file_path)} |-> d_fs[p]]
                      /\ removed' = removed + 1
                      /\ rm_pos' = rm_pos + 1
                      /\ UNCHANGED unlink_failed
    /\ UNCHANGED <<d_root, d_alias, d_all_files, d_workers, auto_remove, d_phase, d_pc,
                   d_hash, d_collected, hash_to_files, hash_order, duplicates,
                   total_duplicates, remove_confirm, duplicate_size, notDup>>

\* lines 680-689: one turn of the removal loop; unlink() may raise
Unlink ==
    /\ d_phase = "removing"
    /\ rm_pos < Len(RemovalTargets)
    /\ LET file_path == RemovalTargets[rm_pos + 1]
       IN  /\ unlink_calls' = Append(unlink_calls, file_path)
           /\ \E refused \in BOOLEAN :
                 IF refused \/ ~FileAt(file_path)
                 THEN /\ unlink_failed' = unlink_failed \cup {file_path}
                      /\ UNCHANGED <<d_fs, removed>>
                 ELSE /\ d_fs' = [p \in DOMAIN d_fs \ {Resolve(file_path)} |-> d_fs[p]]
                      /\ removed' = removed + 1
                      /\ UNCHANGED unlink_failed
    /\ rm_pos' = rm_pos + 1
    /\ UNCHANGED <<d_root, d_alias, d_all_files, d_workers, auto_remove, d_phase, d_pc,
                   d_hash, d_collected, hash_to_files, hash_order, duplicates,
                   total_duplicates, remove_confirm, duplicate_size, notDup>>

\* lines 691-701: the loop is over, the count is reported
RemoveFinish ==
    /\ d_phase = "removing"
    /\ rm_pos = Len(RemovalTargets)
    /\ d_phase' = "removed"
    /\ UNCHANGED <<d_root, d_fs, d_alias, d_all_files, d_workers, auto_remove, d_pc, d_hash,
                   d_collected, hash_to_files, hash_order, duplicates,
                   total_duplicates, remove_confirm, duplicate_size, rm_pos, removed, unlink_calls,
                   unlink_failed, notDup>>

DupNext ==
    \/ DupBegin
    \/ \E i \in 1..Len(d_all_files) : StartHash(i)
    \/ \E f \in DOMAIN d_pc : FinishHash(f)
    \/ \E f \in DOMAIN d_pc : CollectHash(f)
    \/ Group
    \/ Report
    \/ Unlink
    \/ RemoveFinish

-----------------------------------------------------------------------------
(* clean_temp_files *)

\* largest number of regular files in the swept tree
MaxSweepFiles == 3

\* A swept file is a record [dir, name, size]; the name is the sequence of
\* its characters, so that endswith, lower and "in" work on it as in the code.

\* line 84: self.temp_extensions
temp_extensions == <<
    <<".", "t", "m", "p">>,
    <<".", "t", "e", "m", "p">>,
    <<".", "b", "a", "k">>,
    <<".", "l", "o", "g">>,
    <<"~">>,
    <<".", "s", "w", "p">>,
    <<".", "c", "a", "c", "h", "e">>,
    <<".", "c", "r", "d", "o", "w", "n", "l", "o", "a", "d">>,
    <<".", "p", "a", "r", "t">> >>

\* line 729: the name patterns
name_patterns == <<
    <<"c", "a", "c", "h", "e">>,
    <<"t", "e", "m", "p">>,
    <<"t", "m", "p">>,
    <<"b", "a", "c", "k", "u", "p">> >>

\* The regular files the swept tree may hold, in the order rglob yields them
SweepOrder == <<
    [dir |-> Root, name |-> <<"a", ".", "j", "p", "g">>, size |-> 64],
    [dir |-> Root, name |-> <<"b", ".", "j", "p", "g">>, size |-> 64],
    [dir |-> Root, name |-> <<"c", ".", "p", "d", "f">>, size |-> 128],
    [dir |-> Root, name |-> <<"d", ".", "t", "m", "p">>, size |-> 256],
    [dir |-> Root, name |-> <<"x", ".", "t", "m", "p">>, size |-> 1],
    [dir |-> Root, name |-> <<"c", "a", "c", "h", "e", "_", "d", "a", "t", "a", ".", "b", "i", "n">>, size |-> 2],
    [dir |-> Root, name |-> <<"r", "e", "p", "o", "r", "t", ".", "p", "d", "f">>, size |-> 4],
    [dir |-> <<"root", "d">>, name |-> <<"t", "e", "m", "p", ".", "t", "m", "p">>, size |-> 8],
    [dir |-> <<"root", "d">>, name |-> <<"a", ".", "B", "A", "K">>, size |-> 16],
    [dir |-> <<"root", "d">>, name |-> <<"B", "a", "c", "k", "u", "p", ".", "d", "o", "c">>, size |-> 32] >>

\* the scenario directory, as the sweep sees it
SweepScenario == {SweepOrder[i] : i \in 1..4}

\* str.lower(), on one character
LowerChar(c) ==
    CASE c = "A" -> "a"
      [] c = "B" -> "b"
      [] c = "K" -> "k"
      [] OTHER -> c

\* str.lower()
LowerName(name) == [i \in 1..Len(name) |-> LowerChar(name[i])]

\* name.endswith(ext)
EndsWith(name, ext) ==
    Len(name) >= Len(ext) /\ SubSeq(name, Len(name) - Len(ext) + 1, Len(name)) = ext

\* pattern in name
Contains(name, pattern) ==
    \E i \in 1..(Len(name) - Len(pattern) + 1) :
        SubSeq(name, i, i + Len(pattern) - 1) = pattern

\* a candidate test that looks at the suffix only
IsTempBySuffixOnly(name) ==
    \E i \in 1..Len(temp_extensions) : EndsWith(name, temp_extensions[i])

\* lines 725-731: the suffix test, else the pattern test on the lowered name
IsTemp(name) ==
    \/ \E i \in 1..Len(temp_extensions) : EndsWith(name, temp_extensions[i])
    \/ \E i \in 1..Len(name_patterns) : Contains(LowerName(name), name_patterns[i])

\* rglob("*") reaches the files of the directories it can list, from the root down
SweepReached(f) ==
    \A k \in 1..Len(f.dir) :
        SubSeq(f.dir, 1, k) \in c_dirs /\ SubSeq(f.dir, 1, k) \notin c_denied

\* lines 722-723: the items of path.rglob("*") for which is_file() holds
SweepWalk == SelectSeq(SweepOrder, LAMBDA f : f \in c_files /\ SweepReached(f))

\* what the report step prints when it has printed nothing yet
NotReported == [count |-> -1, size |-> -1]

SweepInit ==
    /\ \E T \in {{}, {Root}, {Root, <<"root", "d">>}},
          F \in {G \in SUBSET (Range(SweepOrder) \ SweepScenario) :
                    Cardinality(G) <= MaxSweepFiles} \cup {SweepScenario} :
       \E D \in SUBSET T :
          /\ \A f \in F : f.dir \in T
          /\ c_dirs = T
          /\ c_files = F
          /\ c_denied = D
    /\ c_confirm \in BOOLEAN
    /\ c_phase = "called"
    /\ c_pos = 0
    /\ temp_files = <<>>
    /\ total_size = 0
    /\ c_reported = NotReported
    /\ c_proceed = FALSE
    /\ c_del_pos = 0
    /\ deleted_count = 0
    /\ deleted_size = 0
    /\ c_failed = {}

\* an entry that starts the enumeration without looking at the root
SweepBeginWithoutCheck ==
    /\ c_phase = "called"
    /\ c_phase' = "scanning"
    /\ UNCHANGED <<c_dirs, c_files, c_denied, c_confirm, c_pos, temp_files,
                   total_size, c_reported, c_proceed, c_del_pos, deleted_count,
                   deleted_size, c_failed, notSweep>>

\* lines 705-720: the root is missing, or the enumeration starts
SweepBegin ==
    /\ c_phase = "called"
    /\ c_phase' = IF Root \notin c_dirs THEN "noroot" ELSE "scanning"
    /\ UNCHANGED <<c_dirs, c_files, c_denied, c_confirm, c_pos, temp_files,
                   total_size, c_reported, c_proceed, c_del_pos, deleted_count,
                   deleted_size, c_failed, notSweep>>

\* a turn of the rglob loop that applies the pattern test after the suffix
\* test instead of in its place: two "if" where the code has "if ... elif"
SweepVisitBothTests ==
    /\ c_phase = "scanning"
    /\ c_pos < Len(SweepWalk)
    /\ LET file_path == SweepWalk[c_pos + 1]
           by_suffix == \E i \in 1..Len(temp_extensions) :
                           EndsWith(file_path.name, temp_extensions[i])
           by_pattern == \E i \in 1..Len(name_patterns) :
                            Contains(LowerName(file_path.name), name_patterns[i])
           after_suffix == IF by_suffix THEN Append(temp_files, file_path)
                           ELSE temp_files
           size_after_suffix == IF by_suffix THEN total_size + file_path.size
                                ELSE total_size
       IN  /\ temp_files' = IF by_pattern THEN Append(after_suffix, file_path)
                            ELSE after_suffix
           /\ total_size' = IF by_pattern THEN size_after_suffix + file_path.size
                            ELSE size_after_suffix
    /\ c_pos' = c_pos + 1
    /\ UNCHANGED <<c_dirs, c_files, c_denied, c_confirm, c_phase, c_reported,
                   c_proceed, c_del_pos, deleted_count, deleted_size, c_failed,
                   notSweep>>

\* lines 722-731: one turn of the rglob loop
SweepVisit ==
    /\ c_phase = "scanning"
    /\ c_pos < Len(SweepWalk)
    /\ LET file_path == SweepWalk[c_pos + 1]
       IN  IF IsTemp(file_path.name)
           THEN /\ temp_files' = Append(temp_files, file_path)
                /\ total_size' = total_size + file_path.size
           ELSE UNCHANGED <<temp_files, total_size>>
    /\ c_pos' = c_pos + 1
    /\ UNCHANGED <<c_dirs, c_files, c_denied, c_confirm, c_phase, c_reported,
                   c_proceed, c_del_pos, deleted_count, deleted_size, c_failed,
                   notSweep>>

\* a report step that prints the candidates only when it is going to ask
SweepReportOnlyWhenAsking ==
    /\ c_phase = "scanning"
    /\ c_pos = Len(SweepWalk)
    /\ IF temp_files = <<>>
       THEN /\ c_phase' = "nothing"
            /\ UNCHANGED c_reported
       ELSE /\ c_phase' = "reported"
            /\ c_reported' = IF c_confirm
                             THEN [count |-> Len(temp_files), size |-> total_size]
                             ELSE c_reported
    /\ UNCHANGED <<c_dirs, c_files, c_denied, c_confirm, c_pos, temp_files,
                   total_size, c_proceed, c_del_pos, deleted_count, deleted_size,
                   c_failed, notSweep>>

\* lines 733-768: nothing found, or the count and the total size are printed
SweepReport ==
    /\ c_phase = "scanning"
    /\ c_pos = Len(SweepWalk)
    /\ IF temp_files = <<>>
       THEN /\ c_phase' = "nothing"
            /\ UNCHANGED c_reported
       ELSE /\ c_phase' = "reported"
            /\ c_reported' = [count |-> Len(temp_files), size |-> total_size]
    /\ UNCHANGED <<c_dirs, c_files, c_denied, c_confirm, c_pos, temp_files,
                   total_size, c_proceed, c_del_pos, deleted_count, deleted_size,
                   c_failed, notSweep>>

\* a confirmation step that goes on to the deletion whatever the answer
SweepConfirmIgnoringAnswer ==
    /\ c_phase = "reported"
    /\ \E answer \in BOOLEAN :
          /\ c_proceed' = IF c_confirm THEN answer ELSE c_proceed
          /\ c_phase' = "deleting"
    /\ UNCHANGED <<c_dirs, c_files, c_denied, c_confirm, c_pos, temp_files,
                   total_size, c_reported, c_del_pos, deleted_count,
                   deleted_size, c_failed, notSweep>>

\* lines 770-786: the question is asked when confirm is set
SweepConfirm ==
    /\ c_phase = "reported"
    /\ \E answer \in BOOLEAN :
          IF c_confirm
          THEN /\ c_proceed' = answer
               /\ c_phase' = IF answer THEN "deleting" ELSE "cancelled"
          ELSE /\ c_phase' = "deleting"
               /\ UNCHANGED c_proceed
    /\ UNCHANGED <<c_dirs, c_files, c_denied, c_confirm, c_pos, temp_files,
                   total_size, c_reported, c_del_pos, deleted_count,
                   deleted_size, c_failed, notSweep>>

\* a deletion loop that counts every attempt as a deletion
SweepDeleteCountingAttempts ==
    /\ c_phase = "deleting"
    /\ c_del_pos < Len(temp_files)
    /\ LET temp_file == temp_files[c_del_pos + 1]
       IN  \E refused \in BOOLEAN :
              IF refused \/ temp_file \notin c_files
              THEN /\ c_failed' = c_failed \cup {temp_file}
                   /\ deleted_count' = deleted_count + 1
                   /\ UNCHANGED <<c_files, deleted_size>>
              ELSE /\ c_files' = c_files \ {temp_file}
                   /\ deleted_count' = deleted_count + 1
                   /\ deleted_size' = deleted_size + temp_file.size
                   /\ UNCHANGED c_failed
    /\ c_del_pos' = c_del_pos + 1
    /\ UNCHANGED <<c_dirs, c_denied, c_confirm, c_phase, c_pos, temp_files,
                   total_size, c_reported, c_proceed, notSweep>>

\* lines 799-808 / 812-820: one turn of the deletion loop; stat() or unlink()
\* may raise
SweepDelete ==
    /\ c_phase = "deleting"
    /\ c_del_pos < Len(temp_files)
    /\ LET temp_file == temp_files[c_del_pos + 1]
       IN  \E refused \in BOOLEAN :
              IF refused \/ temp_file \notin c_files
              THEN /\ c_failed' = c_failed \cup {temp_file}
                   /\ UNCHANGED <<c_files, deleted_count, deleted_size>>
              ELSE /\ c_files' = c_files \ {temp_file}
                   /\ deleted_count' = deleted_count + 1
                   /\ deleted_size' = deleted_size + temp_file.size
                   /\ UNCHANGED c_failed
    /\ c_del_pos' = c_del_pos + 1
    /\ UNCHANGED <<c_dirs, c_denied, c_confirm, c_phase, c_pos, temp_files,
                   total_size, c_reported, c_proceed, notSweep>>

\* lines 822-829: the loop is over, the counts are printed
SweepFinish ==
    /\ c_phase = "deleting"
    /\ c_del_pos = Len(temp_files)
    /\ c_phase' = "done"
    /\ UNCHANGED <<c_dirs, c_files, c_denied, c_confirm, c_pos, temp_files,
                   total_size, c_reported, c_proceed, c_del_pos, deleted_count,
                   deleted_size, c_failed, notSweep>>

SweepNext ==
    \/ SweepBegin
    \/ SweepVisit
    \/ SweepReport
    \/ SweepConfirm
    \/ SweepDelete
    \/ SweepFinish

-----------------------------------------------------------------------------
(* analyze_directory_threaded *)

\* largest number of files in the analysed directory
MaxAnaFiles == 3

\* line 955: the largest-files list is cut to its first 10 entries
TopN == 10

\* largest number of files in the directory whose largest files are cut to
\* the first TopN
MaxTopFiles == 11

\* the i-th file of that directory
BigFile(i) == P(<<"root", "big">>, ToString(i), ".bin")

\* what stat() gives for it: the sizes 2, 3, 4, 1 in turn
BigStat ==
    [p \in {BigFile(i) : i \in 1..MaxTopFiles} |->
        LET i == CHOOSE j \in 1..MaxTopFiles : BigFile(j) = p
        IN  [st_size |-> ((i * 5) % 4) + 1, st_mtime |-> i]]

\* The files the scan may have listed, in the order it lists them
AnaOrder ==
    << P(Root, "a", ".jpg"), P(Root, "b", ".JPG"), P(Root, "b", ".jpg"),
       P(Root, "c", ".pdf"), P(Root, "d", ".tmp"), P(Root, "README", "") >>

\* what stat() gives for each of them: a and c share the earliest
\* modification time, d and README the latest, a and b the size
AnaStat ==
    (P(Root, "a", ".jpg")  :> [st_size |-> 10, st_mtime |-> 1]) @@
    (P(Root, "b", ".JPG")  :> [st_size |-> 10, st_mtime |-> 2]) @@
    (P(Root, "b", ".jpg")  :> [st_size |-> 10, st_mtime |-> 2]) @@
    (P(Root, "c", ".pdf")  :> [st_size |-> 20, st_mtime |-> 1]) @@
    (P(Root, "d", ".tmp")  :> [st_size |-> 5,  st_mtime |-> 3]) @@
    (P(Root, "README", "") :> [st_size |-> 7,  st_mtime |-> 3]) @@
    BigStat

\* analyze_file's None, returned when stat() raised
NoRecord == [none |-> TRUE]

\* the None that oldest_file and newest_file start with
NoFile == <<>>

\* lines 873-878: 'Others' unless a category lists the extension
AnaCategory(file_ext) ==
    IF Classify(file_ext) = NoCategory THEN "Others" ELSE Classify(file_ext)

\* an analyze_file that, like organize_file, passes over a file without
\* extension
AnalyzeFileSkippingNoExtension(file_path) ==
    IF file_path \in a_unstatable \/ Lower(file_path.ext) = "" THEN NoRecord
    ELSE [path          |-> file_path,
          size          |-> AnaStat[file_path].st_size,
          extension     |-> Lower(file_path.ext),
          category      |-> AnaCategory(Lower(file_path.ext)),
          modified_time |-> AnaStat[file_path].st_mtime]

\* lines 867-886: analyze_file
AnalyzeFile(file_path) ==
    IF file_path \in a_unstatable THEN NoRecord
    ELSE [path          |-> file_path,
          size          |-> AnaStat[file_path].st_size,
          extension     |-> Lower(file_path.ext),
          category      |-> AnaCategory(Lower(file_path.ext)),
          modified_time |-> AnaStat[file_path].st_mtime]

\* lines 857-865: the statistics before any file is merged
EmptyStats(n) ==
    [total_files   |-> n,
     total_size    |-> 0,
     categories    |-> <<>>,
     largest_files |-> <<>>,
     extensions    |-> <<>>,
     oldest_file   |-> NoFile,
     newest_file   |-> NoFile]

\* lines 912-913: categories[category]['count'] += 1 and ['size'] += size;
\* the defaultdict creates the entry when it is absent
CategoryAdded(table, category, size) ==
    IF category \in DOMAIN table
    THEN [table EXCEPT ![category] = [count |-> @.count + 1, size |-> @.size + size]]
    ELSE table @@ (category :> [count |-> 1, size |-> size])

\* line 914: extensions[extension] += 1, on a Counter
ExtensionCounted(table, extension) ==
    IF extension \in DOMAIN table THEN [table EXCEPT ![extension] = @ + 1]
    ELSE table @@ (extension :> 1)

\* lines 921 / 943: not oldest_file or modified_time < oldest_file[1]
Older(stats, res) ==
    stats.oldest_file = NoFile \/ res.modified_time < stats.oldest_file[2]

\* lines 923 / 945: not newest_file or modified_time > newest_file[1]
Newer(stats, res) ==
    stats.newest_file = NoFile \/ res.modified_time > stats.newest_file[2]

\* a merge that counts the file but forgets its size in the category
MergedWithoutCategorySize(stats, res) ==
    [stats EXCEPT
        !.total_size = @ + res.size,
        !.categories = CategoryAdded(@, res.category, 0),
        !.extensions = ExtensionCounted(@, res.extension),
        !.largest_files = Append(@, <<res.path, res.size>>),
        !.oldest_file = IF Older(stats, res)
                        THEN <<res.path, res.modified_time>> ELSE @,
        !.newest_file = IF Newer(stats, res)
                        THEN <<res.path, res.modified_time>> ELSE @]

\* lines 909-924 / 934-946: one res merged into the statistics
Merged(stats, res) ==
    [stats EXCEPT
        !.total_size = @ + res.size,
        !.categories = CategoryAdded(@, res.category, res.size),
        !.extensions = ExtensionCounted(@, res.extension),
        !.largest_files = Append(@, <<res.path, res.size>>),
        !.oldest_file = IF Older(stats, res)
                        THEN <<res.path, res.modified_time>> ELSE @,
        !.newest_file = IF Newer(stats, res)
                        THEN <<res.path, res.modified_time>> ELSE @]

RECURSIVE InsertBySize(_, _)
\* x put behind the entries that are at least as large
InsertBySize(x, sorted) ==
    IF sorted = <<>> THEN <<x>>
    ELSE IF Head(sorted)[2] >= x[2] THEN <<Head(sorted)>> \o InsertBySize(x, Tail(sorted))
    ELSE <<x>> \o sorted

RECURSIVE SortedBySize(_)
\* line 954: list.sort(key=size, reverse=True), a stable sort
SortedBySize(entries) ==
    IF entries = <<>> THEN <<>>
    ELSE InsertBySize(entries[Len(entries)],
                      SortedBySize(SubSeq(entries, 1, Len(entries) - 1)))

AnaRunning == {f \in DOMAIN a_pc : a_pc[f] = "running"}

AnaInit ==
    /\ \E S \in {T \in SUBSET (Range(AnaOrder) \ {P(Root, "b", ".jpg")}) :
                    Cardinality(T) <= MaxAnaFiles} \cup {Scenario},
          U \in SUBSET Range(AnaOrder) :
          /\ U \subseteq S
          /\ Cardinality(U) <= 1
          /\ a_all_files = SelectSeq(AnaOrder, LAMBDA p : p \in S)
          /\ a_unstatable = U
          /\ a_pc = [p \in S |-> "pending"]
          /\ a_result = [p \in S |-> NoRecord]
          /\ a_root \in (IF S = {} THEN BOOLEAN ELSE {TRUE})
    /\ a_workers \in 1..MaxWorkers
    /\ a_phase = "called"
    /\ a_collected = {}
    /\ file_stats = EmptyStats(0)

\* lines 833-865: the root is missing, nothing was scanned, or the analysis starts
AnaBegin ==
    /\ a_phase = "called"
    /\ a_phase' = IF ~a_root THEN "noroot"
                  ELSE IF a_all_files = <<>> THEN "empty"
                  ELSE "analyzing"
    /\ file_stats' = IF a_root /\ a_all_files # <<>>
                     THEN EmptyStats(Len(a_all_files)) ELSE file_stats
    /\ UNCHANGED <<a_root, a_all_files, a_unstatable, a_workers, a_pc, a_result,
                   a_collected, notAna>>

\* lines 901-903 / 930-931: a free worker takes the next submitted file
StartAnalyze(i) ==
    /\ a_phase = "analyzing"
    /\ a_pc[a_all_files[i]] = "pending"
    /\ \A j \in 1..(i - 1) : a_pc[a_all_files[j]] # "pending"
    /\ Cardinality(AnaRunning) < a_workers
    /\ a_pc' = [a_pc EXCEPT ![a_all_files[i]] = "running"]
    /\ UNCHANGED <<a_root, a_all_files, a_unstatable, a_workers, a_phase,
                   a_result, a_collected, file_stats, notAna>>

\* lines 867-886: the task returns its record, or None when stat() raised
FinishAnalyze(f) ==
    /\ a_pc[f] = "running"
    /\ a_result' = [a_result EXCEPT ![f] = AnalyzeFile(f)]
    /\ a_pc' = [a_pc EXCEPT ![f] = "done"]
    /\ UNCHANGED <<a_root, a_all_files, a_unstatable, a_workers, a_phase,
                   a_collected, file_stats, notAna>>

\* lines 905-928 / 932-950: one turn of the as_completed loop
CollectAnalyze(f) ==
    /\ a_phase = "analyzing"
    /\ a_pc[f] = "done"
    /\ f \notin a_collected
    /\ a_collected' = a_collected \cup {f}
    /\ file_stats' = IF a_result[f] # NoRecord THEN Merged(file_stats, a_result[f])
                     ELSE file_stats
    /\ UNCHANGED <<a_root, a_all_files, a_unstatable, a_workers, a_phase, a_pc,
                   a_result, notAna>>

\* an end that sorts the largest files and keeps them all
AnaFinishWithoutCut ==
    /\ a_phase = "analyzing"
    /\ a_collected = DOMAIN a_pc
    /\ file_stats' = [file_stats EXCEPT !.largest_files = SortedBySize(@)]
    /\ a_phase' = "done"
    /\ UNCHANGED <<a_root, a_all_files, a_unstatable, a_workers, a_pc, a_result,
                   a_collected, notAna>>

\* lines 953-955: the largest files are sorted and cut, the results shown
AnaFinish ==
    /\ a_phase = "analyzing"
    /\ a_collected = DOMAIN a_pc
    /\ file_stats' = [file_stats EXCEPT !.largest_files =
                          SubSeq(SortedBySize(@), 1,
                                 IF Len(@) < TopN THEN Len(@) ELSE TopN)]
    /\ a_phase' = "done"
    /\ UNCHANGED <<a_root, a_all_files, a_unstatable, a_workers, a_pc, a_result,
                   a_collected, notAna>>

RECURSIVE MergedAll(_, _)
\* the statistics after the records of the files of a list were merged, in
\* the order of the list (each intermediate record is bound as a value, so
\* that it is computed once)
MergedAll(stats, files) ==
    IF files = <<>> THEN stats
    ELSE LET res == AnalyzeFile(Head(files))
         IN  CHOOSE r \in {MergedAll(next, Tail(files)) :
                              next \in {IF res # NoRecord THEN Merged(stats, res)
                                        ELSE stats}} : TRUE

\* lines 905-928: the analysis of a directory of up to MaxTopFiles files at
\* the moment every task has returned and the collecting loop has consumed
\* all of them, in the order of submission, but the last
TopInit ==
    /\ \E S \in SUBSET (1..MaxTopFiles) :
       \E U \in {V \in SUBSET S : Cardinality(V) <= 1} :
          /\ S # {}
          /\ a_unstatable = {BigFile(i) : i \in U}
          /\ a_all_files = SelectSeq([i \in 1..MaxTopFiles |-> BigFile(i)],
                                     LAMBDA f : f \in {BigFile(i) : i \in S})
          /\ a_pc = [f \in {BigFile(i) : i \in S} |-> "done"]
    /\ a_result = [f \in DOMAIN a_pc |-> AnalyzeFile(f)]
    /\ a_collected = Range(SubSeq(a_all_files, 1, Len(a_all_files) - 1))
    /\ file_stats = MergedAll(EmptyStats(Len(a_all_files)),
                              SubSeq(a_all_files, 1, Len(a_all_files) - 1))
    /\ a_root = TRUE
    /\ a_workers \in 1..MaxWorkers
    /\ a_phase = "analyzing"

\* the end of the collecting loop, then the sort and the cut
TopNext ==
    \/ \E f \in DOMAIN a_pc : CollectAnalyze(f)
    \/ AnaFinish

AnaNext ==
    \/ AnaBegin
    \/ \E i \in 1..Len(a_all_files) : StartAnalyze(i)
    \/ \E f \in DOMAIN a_pc : FinishAnalyze(f)
    \/ \E f \in DOMAIN a_pc : CollectAnalyze(f)
    \/ AnaFinish

-----------------------------------------------------------------------------
(* The category loops of organize_file and analyze_file *)

\* largest number of categories in a table drawn for the loops
MaxCategories == 2

\* the category names and the extensions the drawn tables are made of
CategoryNames == <<"Images", "Documents", "Archives">>

TableExtensions == {".jpg", ".pdf"}

\* the lower-cased suffixes handed to the loops; the last is "no extension"
ClassifiedExtensions == {".jpg", ".pdf", ".xyz", ""}

\* a dict: the keys are distinct
IsTable(t) == \A i, j \in 1..Len(t) : i # j => t[i].name # t[j].name

\* the tables of at most MaxCategories categories, whose extension lists may
\* overlap, and the table of the program
Tables ==
    {file_categories} \cup
    UNION {{t \in [1..n -> [name : Range(CategoryNames),
                            exts : SUBSET TableExtensions]] : IsTable(t)}
           : n \in 0..MaxCategories}

\* the threads that classify: two organize_file tasks and one analyze_file task
OrganizeCallers == {"organize_file 1", "organize_file 2"}

AnalyzeCallers == {"analyze_file"}

ClassInit ==
    /\ k_table \in Tables
    /\ k_ext \in ClassifiedExtensions
    /\ k_pc = [c \in OrganizeCallers \cup AnalyzeCallers |-> "loop"]
    /\ k_i = [c \in OrganizeCallers \cup AnalyzeCallers |-> 0]
    /\ k_category = [c \in OrganizeCallers \cup AnalyzeCallers |->
                        IF c \in AnalyzeCallers THEN "Others" ELSE NoCategory]

\* lines 433-435, 453-454, 469: one turn of organize_file's loop over the
\* table; the first hit ends the task in that category; at the end of the
\* table a file with an extension goes to Others, one without is skipped
OrganizeLoopStep(c) ==
    /\ c \in OrganizeCallers
    /\ k_pc[c] = "loop"
    /\ IF k_i[c] = Len(k_table)
       THEN /\ k_category' = [k_category EXCEPT ![c] =
                                  IF k_ext # "" THEN "Others" ELSE NoCategory]
            /\ k_pc' = [k_pc EXCEPT ![c] = "returned"]
            /\ UNCHANGED k_i
       ELSE /\ k_i' = [k_i EXCEPT ![c] = @ + 1]
            /\ IF k_ext \in k_table[k_i[c] + 1].exts
               THEN /\ k_category' = [k_category EXCEPT ![c] = k_table[k_i[c] + 1].name]
                    /\ k_pc' = [k_pc EXCEPT ![c] = "returned"]
               ELSE UNCHANGED <<k_category, k_pc>>
    /\ UNCHANGED <<k_table, k_ext, notClass>>

\* the loop of analyze_file without its break: the last hit wins
AnalyzeLoopStepWithoutBreak(c) ==
    /\ c \in AnalyzeCallers
    /\ k_pc[c] = "loop"
    /\ IF k_i[c] = Len(k_table)
       THEN /\ k_pc' = [k_pc EXCEPT ![c] = "returned"]
            /\ UNCHANGED <<k_i, k_category>>
       ELSE /\ k_i' = [k_i EXCEPT ![c] = @ + 1]
            /\ IF k_ext \in k_table[k_i[c] + 1].exts
               THEN /\ k_category' = [k_category EXCEPT ![c] = k_table[k_i[c] + 1].name]
                    /\ UNCHANGED k_pc
               ELSE UNCHANGED <<k_category, k_pc>>
    /\ UNCHANGED <<k_table, k_ext, notClass>>

\* lines 874-878: one turn of analyze_file's loop over the table; category
\* starts as 'Others' and the first hit sets it and breaks
AnalyzeLoopStep(c) ==
    /\ c \in AnalyzeCallers
    /\ k_pc[c] = "loop"
    /\ IF k_i[c] = Len(k_table)
       THEN /\ k_pc' = [k_pc EXCEPT ![c] = "returned"]
            /\ UNCHANGED <<k_i, k_category>>
       ELSE /\ k_i' = [k_i EXCEPT ![c] = @ + 1]
            /\ IF k_ext \in k_table[k_i[c] + 1].exts
               THEN /\ k_category' = [k_category EXCEPT ![c] = k_table[k_i[c] + 1].name]
                    /\ k_pc' = [k_pc EXCEPT ![c] = "returned"]
               ELSE UNCHANGED <<k_category, k_pc>>
    /\ UNCHANGED <<k_table, k_ext, notClass>>

ClassNext ==
    \/ \E c \in OrganizeCallers : OrganizeLoopStep(c)
    \/ \E c \in AnalyzeCallers : AnalyzeLoopStep(c)

-----------------------------------------------------------------------------
(* Specifications *)

\* the values the variables of an operation keep while another one runs
ScanIdle ==
    /\ s_dirs = {} /\ s_files = {} /\ s_denied = {} /\ s_links = {}
    /\ s_workers = 1
    /\ rich = FALSE /\ s_phase = "idle" /\ directories = <<>> /\ s_pc = <<>>
    /\ local_files = <<>> /\ s_collected = {} /\ s_all_files = <<>>
    /\ scan_results_queue = <<>> /\ scan_total = 0 /\ completed_dirs = 0

DupIdle ==
    /\ d_root = FALSE /\ remove_confirm = FALSE
    /\ d_fs = <<>> /\ d_alias = <<>> /\ d_all_files = <<>> /\ d_workers = 1 /\ auto_remove = FALSE
    /\ d_phase = "idle" /\ d_pc = <<>> /\ d_hash = <<>> /\ d_collected = {}
    /\ hash_to_files = <<>> /\ hash_order = <<>> /\ duplicates = <<>>
    /\ total_duplicates = 0 /\ duplicate_size = 0 /\ rm_pos = 0 /\ removed = 0
    /\ unlink_calls = <<>> /\ unlink_failed = {}

SweepIdle ==
    /\ c_dirs = {} /\ c_files = {} /\ c_denied = {} /\ c_confirm = FALSE
    /\ c_phase = "idle" /\ c_pos = 0 /\ temp_files = <<>> /\ total_size = 0
    /\ c_reported = NotReported /\ c_proceed = FALSE /\ c_del_pos = 0
    /\ deleted_count = 0 /\ deleted_size = 0 /\ c_failed = {}

AnaIdle ==
    /\ a_root = FALSE /\ a_all_files = <<>> /\ a_unstatable = {} /\ a_workers = 1
    /\ a_phase = "idle" /\ a_pc = <<>> /\ a_result = <<>> /\ a_collected = {}
    /\ file_stats = EmptyStats(0)

ClassIdle ==
    /\ k_table = <<>> /\ k_ext = "" /\ k_pc = <<>> /\ k_i = <<>>
    /\ k_category = <<>>

OrgIdle ==
    /\ fs = <<>> /\ dirs = {} /\ all_files = {} /\ max_workers = 1
    /\ phase = "idle" /\ pc = <<>> /\ counter = <<>> /\ new_path = <<>>
    /\ result = <<>> /\ collected = {} /\ organized_count = 0
    /\ error_count = 0

Init == OrgInit /\ ScanIdle /\ DupIdle /\ SweepIdle /\ AnaIdle /\ ClassIdle

Next == OrgNext

\* smart_organize_threaded
Spec == Init /\ [][Next]_vars

\* scan_files_threaded
ScanSpecInit == ScanInit /\ OrgIdle /\ DupIdle /\ SweepIdle /\ AnaIdle /\ ClassIdle

ScanSpec == ScanSpecInit /\ [][ScanNext]_vars

DupSpecInit == DupInit /\ OrgIdle /\ ScanIdle /\ SweepIdle /\ AnaIdle /\ ClassIdle

\* find_duplicates_threaded
DupSpec == DupSpecInit /\ [][DupNext]_vars

SweepSpecInit == SweepInit /\ OrgIdle /\ ScanIdle /\ DupIdle /\ AnaIdle /\ ClassIdle

\* clean_temp_files
SweepSpec == SweepSpecInit /\ [][SweepNext]_vars

AnaSpecInit == AnaInit /\ OrgIdle /\ ScanIdle /\ DupIdle /\ SweepIdle /\ ClassIdle

\* analyze_directory_threaded
AnaSpec == AnaSpecInit /\ [][AnaNext]_vars

EngineInit ==
    \/ Init
    \/ ScanSpecInit
    \/ DupSpecInit
    \/ SweepSpecInit
    \/ AnaSpecInit

EngineNext ==
    \/ OrgNext
    \/ ScanNext
    \/ DupNext
    \/ SweepNext
    \/ AnaNext

ClassSpecInit ==
    ClassInit /\ OrgIdle /\ ScanIdle /\ DupIdle /\ SweepIdle /\ AnaIdle

\* the category loops, run by concurrent tasks on one table and extension
ClassSpec == ClassSpecInit /\ [][ClassNext]_vars

TopSpecInit ==
    TopInit /\ OrgIdle /\ ScanIdle /\ DupIdle /\ SweepIdle /\ ClassIdle

\* the last steps of analyze_directory_threaded on a directory with more
\* files than the largest-files list keeps
TopSpec == TopSpecInit /\ [][TopNext]_vars

\* one call of any of the five operations
EngineSpec == EngineInit /\ [][EngineNext]_vars

\* The pool runs every submitted task and the collecting thread keeps
\* consuming completed futures: some enabled step is eventually taken.
FairSpec == Spec /\ WF_vars(Next)

-----------------------------------------------------------------------------
(* Properties of smart_organize_threaded *)

Succeeded == {f \in all_files : pc[f] = "done" /\ result[f] = "success"}
Skipped   == {f \in all_files : pc[f] = "done" /\ result[f] = "skipped"}
Failed    == {f \in all_files : pc[f] = "raised" \/ (pc[f] = "done" /\ result[f] = "error")}

\* the step in which task f completes a successful shutil.move
MovesNow(f) == pc[f] \in {"move", "omove"} /\ result'[f] = "success"

\* C1: under every worker count and interleaving, no successful move lands on
\* a path where a file already exists, and no two successful files share a
\* destination path.
C1_NoSharedDestNoOverwrite ==
    [][ /\ \A f \in all_files : MovesNow(f) => new_path[f] \notin DOMAIN fs
        /\ \A f, g \in all_files :
              (f # g /\ result'[f] = "success" /\ result'[g] = "success")
                  => new_path'[f] # new_path'[g] ]_vars

\* C2: when organize completes, every scanned file has exactly one outcome and
\* succeeded + failed + skipped = total_files, a task that raised outside its
\* try block being counted as one error.
C2_TallyComplete ==
    phase = "done" =>
        /\ \A f \in all_files : pc[f] \in {"done", "raised"}
        /\ \A f \in all_files : pc[f] = "done" => result[f] \in {"success", "skipped", "error"}
        /\ organized_count = Cardinality(Succeeded)
        /\ error_count = Cardinality(Failed)
        /\ organized_count + error_count + Cardinality(Skipped) = Cardinality(all_files)

\* a completed run with a success, a skip and a task that raised in mkdir
C2_Witness ==
    /\ phase = "done"
    /\ \E f \in all_files : pc[f] = "raised"
    /\ Succeeded # {}
    /\ Skipped # {}

\* C3: organize always terminates: every run eventually returns.
C3_Terminates == <>(phase \in {"done", "cancelled", "empty", "noroot"})

\* the k-th candidate name of f in directory d: name.ext, name_1.ext, ...
CandidateName(d, f, k) ==
    IF k = 0 THEN P(d, f.stem, f.ext)
    ELSE P(d, f.stem \o "_" \o ToString(k), f.ext)

\* the first candidate of f in d that does not exist
FirstFree(d, f) ==
    LET free == {k \in 0..(Cardinality(DOMAIN fs) + Cardinality(dirs)) :
                    ~Exists(fs, dirs, CandidateName(d, f, k))}
    IN  CandidateName(d, f, CHOOSE k \in free : \A j \in free : k <= j)

\* C4: with a single worker, a categorized file is moved to name.ext if that is
\* free and otherwise to name_k.ext for the smallest k >= 1 whose path does not
\* exist, and every other file keeps its path and content.
C4_SmallestFreeSuffix ==
    [][ \A f \in all_files :
          (max_workers = 1 /\ pc[f] = "move" /\ result'[f] = "success") =>
              /\ new_path[f] = FirstFree(new_path[f].dir, f)
              /\ DOMAIN fs' = (DOMAIN fs \ {f}) \cup {new_path[f]}
              /\ fs'[new_path[f]] = fs[f]
              /\ \A p \in DOMAIN fs \ {f} : fs'[p] = fs[p] ]_vars

\* a.x.jpg placed at Images/x_2.jpg beside the two files that were there
C4_Witness ==
    /\ max_workers = 1
    /\ P(<<"root", "a">>, "x", ".jpg") \in all_files
    /\ P(<<"root", "Images">>, "x_2", ".jpg") \in DOMAIN fs
    /\ result[P(<<"root", "a">>, "x", ".jpg")] = "success"
    /\ new_path[P(<<"root", "a">>, "x", ".jpg")] = P(<<"root", "Images">>, "x_2", ".jpg")
    /\ P(<<"root", "Images">>, "x", ".jpg") \in DOMAIN fs
    /\ P(<<"root", "Images">>, "x_1", ".jpg") \in DOMAIN fs
    /\ fs[P(<<"root", "Images">>, "x", ".jpg")] = 3
    /\ fs[P(<<"root", "Images">>, "x_1", ".jpg")] = 4
    /\ fs[P(<<"root", "Images">>, "x_2", ".jpg")] = 1

\* C5: the Others destination gets the same suffix resolution: once
\* root/Others/name.ext has been found to exist, the candidate destination is
\* root/Others/name_k.ext, k counting the collisions seen so far.
C5_OthersSuffixApplied ==
    \A f \in all_files :
        (pc[f] \in {"ocheck", "omove"} /\ counter[f] > 1) =>
            new_path[f] = CandidateName(Append(Root, "Others"), f, counter[f] - 1)

\* where the routing rule sends f: its category, Others, or nowhere
RouteDir(f) ==
    LET e == Lower(f.ext)
        cats == {c \in {file_categories[i] : i \in 1..Len(file_categories)} : e \in c.exts}
    IN  IF cats # {} THEN {Append(Root, c.name) : c \in cats}
        ELSE IF e # "" THEN {Append(Root, "Others")}
        ELSE {}

Categorized(f) ==
    \E i \in 1..Len(file_categories) : Lower(f.ext) \in file_categories[i].exts

\* C6: a file whose lower-cased extension is in a category is moved into that
\* category's directory, one with another non-empty extension into Others,
\* one without extension is skipped; a failed move into a category directory
\* is an error outcome and the task never goes on to the Others branch.
C6_Routing ==
    [][ \A f \in all_files :
          /\ MovesNow(f) =>
                /\ new_path[f].dir \in RouteDir(f)
                /\ new_path[f] \in DOMAIN fs'
                /\ fs'[new_path[f]] = fs[f]
          /\ (pc'[f] = "done" /\ Lower(f.ext) = "") => result'[f] = "skipped"
          /\ result'[f] = "skipped" => (Lower(f.ext) = "" /\ f \in DOMAIN fs')
          /\ Categorized(f) => pc'[f] \notin {"ocheck", "obody", "omove"}
          /\ (Categorized(f) /\ pc[f] = "move" /\ ~MovesNow(f) /\ pc'[f] # "move")
                => (pc'[f] = "done" /\ result'[f] = "error" /\ fs' = fs) ]_vars

\* a finished run with one file in a category directory, one in Others and
\* one skipped
C6_Witness ==
    /\ phase = "done"
    /\ \E f \in Succeeded : new_path[f].dir = <<"root", "Images">> /\ new_path[f] \in DOMAIN fs
    /\ \E f \in Succeeded : new_path[f].dir = <<"root", "Others">> /\ new_path[f] \in DOMAIN fs
    /\ \E f \in Skipped : f \in DOMAIN fs

-----------------------------------------------------------------------------
(* Properties of scan_files_threaded *)

NoRepeats(seq) == \A i, j \in 1..Len(seq) : seq[i] = seq[j] => i = j

\* a directory can be listed: it, or the directory a link leads to, is readable
Listable(d) ==
    IF d \in s_dirs THEN d \notin s_denied
    ELSE \E l \in s_links : l.link = d /\ l.target \in s_dirs \ s_denied

\* the directories scan lists: the root, the real directories reached from it
\* through listable real directories, and the links to directories in those
ListedDirs ==
    {d \in s_dirs \cup {l.link : l \in s_links} :
        /\ Listable(d)
        /\ \A k \in 1..(Len(d) - 1) : SubSeq(d, 1, k) \in s_dirs \ s_denied}

\* the paths, through a listed directory, of its regular files
ListedFiles ==
    UNION { {P(d, f.stem, f.ext) :
                f \in {g \in s_files :
                          g.dir = d \/ \E l \in s_links : l.link = d /\ l.target = g.dir}} :
            d \in ListedDirs }

C19_DeniedNotFatal ==
    (s_phase = "done" /\ Root \in s_dirs) =>
        /\ s_collected = Range(directories)
        /\ \A f \in s_files : f.dir \notin s_denied => f \in Range(s_all_files)

\* C19 amended: a directory that cannot be listed does not stop the scan:
\* when it has ended, every regular file of every directory that can be
\* listed and that the walk reaches, none of the directories above it being
\* unlistable, is in the returned list.
C19_DeniedNotFatalReached ==
    (s_phase = "done" /\ Root \in s_dirs) =>
        /\ s_collected = Range(directories)
        /\ \A f \in s_files : f.dir \in ListedDirs => f \in Range(s_all_files)

\* a finished scan of a tree with an unlistable directory that holds a file:
\* the file of the root was returned, the other was not
C19_Witness ==
    /\ s_phase = "done"
    /\ s_denied = {<<"root", "a">>}
    /\ P(<<"root", "a">>, "p", ".jpg") \in s_files
    /\ s_all_files = <<P(Root, "r", ".txt")>>

\* line 376: what scan hands to its caller, entry by entry
ScanReturn == [i \in 1..Len(s_all_files) |-> <<"file", s_all_files[i]>>]

\* C20: what scan returns holds, besides the files, one error entry for
\* every directory whose listing failed.
C20_ErrorsReturned ==
    s_phase = "done" =>
        \A d \in Range(directories) :
            LinkTarget(d) \in s_denied =>
                \E i \in 1..Len(ScanReturn) :
                    ScanReturn[i][1] = "error" /\ ScanReturn[i][2] = d

-----------------------------------------------------------------------------
(* Properties of find_duplicates_threaded *)

Members(h) == Range(hash_to_files[h])

\* the scanned files whose hashing succeeded
Hashed == {f \in Range(d_all_files) : d_pc[f] = "done" /\ d_hash[f] # None}

\* hashing is complete and nothing has been removed yet
Grouped == d_phase \in {"report", "returned"} /\ d_collected = DOMAIN d_pc /\ d_all_files # <<>>

\* C8: after hashing, two hashed files with identical content are in the same
\* group, two files in one group never differ in digest, a file is in at most
\* one group and at most once, unhashed files are in none, and the reported
\* duplicates are exactly the groups with at least 2 members.
C8_Grouping ==
    Grouped =>
        /\ \A f, g \in Hashed :
              d_fs[Resolve(f)] = d_fs[Resolve(g)] =>
                  \E h \in DOMAIN hash_to_files : f \in Members(h) /\ g \in Members(h)
        /\ \A h \in DOMAIN hash_to_files : \A f, g \in Members(h) :
              MD5(d_fs[Resolve(f)]) = MD5(d_fs[Resolve(g)])
        /\ \A h \in DOMAIN hash_to_files : NoRepeats(hash_to_files[h])
        /\ \A h1, h2 \in DOMAIN hash_to_files :
              h1 # h2 => Members(h1) \cap Members(h2) = {}
        /\ \A h \in DOMAIN hash_to_files : Members(h) \subseteq Hashed
        /\ Range(duplicates) = {h \in DOMAIN hash_to_files : Len(hash_to_files[h]) >= 2}
        /\ NoRepeats(duplicates)

\* two workers, a reported group of two identical files next to a hashed file
\* that is alone in its group
C8_Witness ==
    /\ d_phase = "report"
    /\ d_workers = 2
    /\ \E h \in Range(duplicates) :
          /\ Len(hash_to_files[h]) = 2
          /\ d_fs[Resolve(hash_to_files[h][1])] = d_fs[Resolve(hash_to_files[h][2])]
    /\ \E h \in DOMAIN hash_to_files : Len(hash_to_files[h]) = 1

\* the position of f in the scanned list
Position(f) == CHOOSE i \in 1..Len(d_all_files) : d_all_files[i] = f

\* C9: the member order of every duplicate group is fixed by the scanned files
\* alone: whatever the worker count and the completion order, it is the order
\* a run that hashes them one after the other gives, first scanned first.
C9_DeterministicOrder ==
    d_phase = "report" =>
        \A h \in Range(duplicates) :
            \A i, j \in 1..Len(hash_to_files[h]) :
                i < j => Position(hash_to_files[h][i]) < Position(hash_to_files[h][j])

KeepEntries == {hash_to_files[h][1] : h \in Range(duplicates)}

DupeEntries ==
    UNION {{hash_to_files[h][i] : i \in 2..Len(hash_to_files[h])} : h \in Range(duplicates)}

\* C10: a confirmed removal calls unlink on every member but the first of
\* every group and never on a first member; when every unlink succeeded,
\* exactly one member of each group, the first, still names a file and
\* removed is the sum over the groups of (size - 1).
C10_RemovesAllButKeep ==
    /\ d_phase \in {"removing", "removed"} =>
          Range(unlink_calls) \cap KeepEntries = {}
    /\ d_phase = "removed" =>
          /\ Range(unlink_calls) = DupeEntries
          /\ (unlink_failed = {} =>
                /\ \A h \in Range(duplicates) :
                      {m \in Members(h) : FileAt(m)} = {hash_to_files[h][1]}
                /\ removed = Cardinality(DupeEntries)
                /\ removed = total_duplicates)

\* the files on disk before the removal, and those of them that are gone
DupFilesBefore == DOMAIN d_pc \ DOMAIN d_alias

DupFilesGone == DupFilesBefore \ DOMAIN d_fs

\* C11: a failed deletion does not stop the removal loop: when it ends, every
\* member but the first of every group has had exactly one unlink call, and
\* removed is the number of calls that succeeded, which is the number of
\* files that are gone.
C11_DeletionsIndependent ==
    d_phase = "removed" =>
        /\ Range(unlink_calls) = DupeEntries
        /\ NoRepeats(unlink_calls)
        /\ removed = Len(unlink_calls) - Cardinality(unlink_failed)
        /\ removed = Cardinality(DupFilesGone)

\* a group of three whose first deletion failed and whose second succeeded
C11_Witness ==
    /\ d_phase = "removed"
    /\ Len(unlink_calls) = 2
    /\ unlink_calls[1] \in unlink_failed
    /\ unlink_calls[2] \notin unlink_failed
    /\ removed = 1

RECURSIVE SumSizes(_)
\* the sizes of the files of a list, added up
SumSizes(files) ==
    IF files = <<>> THEN 0
    ELSE Size(DupContent[Head(files)]) + SumSizes(Tail(files))

\* C12: after the removal the number of bytes reported as freed is the sum of
\* the sizes of the files that were removed; a file whose deletion failed
\* adds nothing.  (No list of failures exists in the code to compare with.)
C12_BytesFreed ==
    d_phase = "removed" =>
        duplicate_size = SumSizes(SelectSeq(DupOrder, LAMBDA p : p \in DupFilesGone))

-----------------------------------------------------------------------------
(* Properties of clean_temp_files *)

\* the enumeration is over
SweepScanned == c_phase \in {"nothing", "reported", "cancelled"}

\* the rule of the candidate set: one of the suffixes ends the name, or one
\* of the patterns occurs in the lower-cased name
QualifiesAsTemp(name) ==
    \/ \E ext \in Range(temp_extensions) : EndsWith(name, ext)
    \/ \E pattern \in Range(name_patterns) : Contains(LowerName(name), pattern)

\* C13 as stated: a regular file under the root is a sweep candidate exactly
\* when its name ends with a listed suffix or its lower-cased name contains a
\* listed pattern; x.tmp and cache_data.bin always are, report.pdf never is.
C13_CandidateRule ==
    (SweepScanned /\ Root \in c_dirs) =>
        /\ \A f \in c_files : f \in Range(temp_files) <=> QualifiesAsTemp(f.name)
        /\ \A f \in c_files :
              /\ f.name \in {<<"x", ".", "t", "m", "p">>, <<"c", "a", "c", "h", "e", "_", "d", "a", "t", "a", ".", "b", "i", "n">>} => f \in Range(temp_files)
              /\ f.name = <<"r", "e", "p", "o", "r", "t", ".", "p", "d", "f">> => f \notin Range(temp_files)

\* C13 amended: the same rule, for the regular files that the recursive
\* enumeration reaches, those of the root and of the directories below it
\* that can be listed.
C13_CandidateRuleReached ==
    (SweepScanned /\ Root \in c_dirs) =>
        /\ Range(temp_files) \subseteq c_files
        /\ \A f \in c_files :
              f \in Range(temp_files) <=> (SweepReached(f) /\ QualifiesAsTemp(f.name))
        /\ \A f \in c_files :
              /\ (SweepReached(f) /\ f.name \in {<<"x", ".", "t", "m", "p">>, <<"c", "a", "c", "h", "e", "_", "d", "a", "t", "a", ".", "b", "i", "n">>})
                    => f \in Range(temp_files)
              /\ f.name = <<"r", "e", "p", "o", "r", "t", ".", "p", "d", "f">> => f \notin Range(temp_files)

\* a finished enumeration that kept a file for its pattern in upper case,
\* passed over report.pdf and over a file with the suffix in upper case
C13_Witness ==
    /\ c_phase = "reported"
    /\ c_denied = {}
    /\ \E f \in Range(temp_files) : f.name = <<"B", "a", "c", "k", "u", "p", ".", "d", "o", "c">>
    /\ \E f \in c_files : f.name = <<"r", "e", "p", "o", "r", "t", ".", "p", "d", "f">> /\ f \notin Range(temp_files)
    /\ \E f \in c_files : f.name = <<"a", ".", "B", "A", "K">> /\ f \notin Range(temp_files)

\* the candidates of the tree: the qualifying files the enumeration reaches
SweepCandidates == {f \in c_files : SweepReached(f) /\ QualifiesAsTemp(f.name)}

RECURSIVE SumFileSizes(_)
SumFileSizes(files) ==
    IF files = <<>> THEN 0 ELSE Head(files).size + SumFileSizes(Tail(files))

\* C14: whatever confirm is, a step that deletes a file is taken only after
\* the enumeration is over and the complete candidate set, its count and its
\* total size have been reported.
C14_ReportBeforeDelete ==
    [][ c_files' # c_files =>
          /\ c_pos = Len(SweepWalk) + deleted_count
          /\ SweepCandidates \subseteq Range(temp_files)
          /\ NoRepeats(temp_files)
          /\ c_reported = [count |-> Len(temp_files), size |-> SumFileSizes(temp_files)] ]_vars

\* a sweep called with confirm=False that has deleted its two candidates
C14_Witness ==
    /\ c_phase = "done"
    /\ ~c_confirm
    /\ deleted_count = 2
    /\ c_reported.count = 2

-----------------------------------------------------------------------------
(* Properties of analyze_directory_threaded *)

\* the scanned files whose stat() succeeds
Statted == Range(a_all_files) \ a_unstatable

RECURSIVE SizeSum(_)
\* the sizes of a set of files, added up
SizeSum(S) ==
    IF S = {} THEN 0
    ELSE LET f == CHOOSE g \in S : TRUE
         IN  AnaStat[f].st_size + SizeSum(S \ {f})

CategoryOf(f) ==
    LET e == Lower(f.ext)
        hits == {i \in 1..Len(file_categories) : e \in file_categories[i].exts}
    IN  IF hits = {} THEN "Others"
        ELSE file_categories[CHOOSE i \in hits : \A j \in hits : i <= j].name

\* the tables the directory alone determines
DirCategories ==
    [c \in {CategoryOf(f) : f \in Statted} |->
        [count |-> Cardinality({f \in Statted : CategoryOf(f) = c}),
         size  |-> SizeSum({f \in Statted : CategoryOf(f) = c})]]

DirExtensions ==
    [x \in {Lower(f.ext) : f \in Statted} |->
        Cardinality({f \in Statted : Lower(f.ext) = x})]

\* C16: the total size, the per-category counts and sizes and the extension
\* table that analyze ends with are those the directory determines, whatever
\* the worker count and the completion order of the per-file tasks.
C16_SumsCommute ==
    a_phase = "done" =>
        /\ file_stats.total_size = SizeSum(Statted)
        /\ file_stats.categories = DirCategories
        /\ file_stats.extensions = DirExtensions

\* two workers, two images of equal size merged in the reverse of their
\* submission order, and a third file whose stat() failed
C16_Witness ==
    /\ a_phase = "done"
    /\ a_workers = 2
    /\ Len(a_all_files) = 3
    /\ a_unstatable # {}
    /\ Len(file_stats.largest_files) = 2
    /\ file_stats.largest_files[1][1] = P(Root, "b", ".JPG")
    /\ file_stats.largest_files[2][1] = P(Root, "a", ".jpg")
    /\ file_stats.categories["Images"] = [count |-> 2, size |-> 20]

\* the first scanned file, among those with the given modification time
FirstWithTime(t) ==
    LET hits == {i \in 1..Len(a_all_files) :
                    a_all_files[i] \in Statted /\ AnaStat[a_all_files[i]].st_mtime = t}
    IN  a_all_files[CHOOSE i \in hits : \A j \in hits : i <= j]

MinTime == CHOOSE t \in {AnaStat[f].st_mtime : f \in Statted} :
               \A f \in Statted : t <= AnaStat[f].st_mtime

MaxTime == CHOOSE t \in {AnaStat[f].st_mtime : f \in Statted} :
               \A f \in Statted : t >= AnaStat[f].st_mtime

\* C17: the oldest and the newest file reported (path and time) are fixed by
\* the directory alone, also when several files share the extreme time:
\* whatever the completion order, they are those a run that merges the files
\* one after the other in scanned order gives.
C17_ExtremaOrderFree ==
    (a_phase = "done" /\ Statted # {}) =>
        /\ file_stats.oldest_file = <<FirstWithTime(MinTime), MinTime>>
        /\ file_stats.newest_file = <<FirstWithTime(MaxTime), MaxTime>>

-----------------------------------------------------------------------------
(* Properties of the five operations together *)

\* C15: a file is deleted by find-duplicates only when auto_remove is set and
\* the removal question was answered yes, and by sweep never when the
\* question was asked and answered no: in every other run the files on disk
\* stay as they were found.
C15_NoDeleteWithoutCommit ==
    [][ /\ d_fs' # d_fs => (auto_remove /\ remove_confirm /\ d_phase = "removing")
        /\ c_files' # c_files => (c_phase = "deleting" /\ (c_confirm => c_proceed))
        /\ (d_phase' = "returned" /\ d_phase = "report") => d_fs' = d_fs
        /\ (c_phase' = "cancelled") => c_files' = c_files ]_vars

\* a sweep that found candidates, asked, and was told no
C15_Witness ==
    /\ c_phase = "cancelled"
    /\ c_confirm
    /\ ~c_proceed
    /\ Len(temp_files) >= 2
    /\ Range(temp_files) \subseteq c_files

\* C18: when the root is missing each operation stops at its first test: no
\* task is dispatched, nothing is enumerated, hashed, analysed, created, moved
\* or deleted, and scan returns an empty list.
C18_RootMissingAborts ==
    /\ (phase # "idle" /\ Root \notin dirs) =>
          /\ phase \in {"called", "noroot"}
          /\ fs = <<>> /\ dirs = {}
          /\ \A f \in DOMAIN pc : pc[f] = "pending"
          /\ organized_count = 0 /\ error_count = 0
    /\ (s_phase # "idle" /\ Root \notin s_dirs) =>
          /\ s_phase \in {"start", "done"}
          /\ directories = <<>> /\ s_pc = <<>>
          /\ s_all_files = <<>>
          /\ scan_results_queue = <<>>
    /\ (d_phase # "idle" /\ ~d_root) =>
          /\ d_phase \in {"called", "noroot"}
          /\ \A f \in DOMAIN d_pc : d_pc[f] = "pending"
          /\ hash_to_files = <<>> /\ unlink_calls = <<>> /\ d_fs = <<>>
    /\ (c_phase # "idle" /\ Root \notin c_dirs) =>
          /\ c_phase \in {"called", "noroot"}
          /\ c_pos = 0 /\ temp_files = <<>> /\ c_del_pos = 0 /\ c_files = {}
    /\ (a_phase # "idle" /\ ~a_root) =>
          /\ a_phase \in {"called", "noroot"}
          /\ \A f \in DOMAIN a_pc : a_pc[f] = "pending"
          /\ file_stats = EmptyStats(0)

\* a sweep that was called on a missing root and has returned
C18_Witness ==
    /\ c_phase = "noroot"
    /\ Root \notin c_dirs

-----------------------------------------------------------------------------
(* Failures of single files *)

\* the scanned files whose hashing failed
Unhashed == {f \in Range(d_all_files) : d_pc[f] = "done" /\ d_hash[f] = None}

\* the groups a set of readable files falls into: files with the same digest
GroupsOf(S) ==
    {{g \in S : MD5(d_fs[Resolve(g)]) = MD5(d_fs[Resolve(f)])} : f \in S}

\* C21: a file whose hashing fails does not abort find-duplicates: when
\* hashing is over every scanned file has been hashed and collected, a file
\* whose hashing failed is in no group, and the groups (and the reported
\* duplicates) are those of the remaining files alone.
C21_HashFailureSkipsFile ==
    Grouped =>
        /\ \A f \in Range(d_all_files) : d_pc[f] = "done" /\ f \in d_collected
        /\ \A f \in Unhashed : \A h \in DOMAIN hash_to_files : f \notin Members(h)
        /\ {Members(h) : h \in DOMAIN hash_to_files} = GroupsOf(Hashed)
        /\ {Members(h) : h \in Range(duplicates)} =
              {G \in GroupsOf(Hashed) : Cardinality(G) >= 2}

\* three scanned files: the first to be collected could not be read, the two
\* others are identical and are reported as one group
C21_Witness ==
    /\ d_phase = "report"
    /\ Len(d_all_files) = 3
    /\ Cardinality(Unhashed) = 1
    /\ Len(duplicates) = 1
    /\ Members(duplicates[1]) = Hashed

\* lines 598-621: the failures find_duplicates_threaded has tallied.  The
\* collecting loop advances the progress display for every future and
\* increments no counter when file_hash is None or result() raises.
HashFailuresTallied == 0

RECURSIVE GroupedCount(_)
\* the number of files in the digest-to-files map
GroupedCount(hs) ==
    IF hs = <<>> THEN 0
    ELSE Len(hash_to_files[Head(hs)]) + GroupedCount(Tail(hs))

\* C22: when hashing is over, the error tally of find-duplicates is the number
\* of scanned files whose hashing failed, so that the files in the groups
\* plus the tallied failures are the scanned files.
C22_FailuresTallied ==
    Grouped =>
        /\ HashFailuresTallied = Cardinality(Unhashed)
        /\ GroupedCount(hash_order) + HashFailuresTallied = Len(d_all_files)

\* the step in which task f fails: mkdir raises, or shutil.move raises
FailsNow(f) ==
    \/ pc[f] = "pending" /\ pc'[f] = "raised"
    \/ pc[f] \in {"move", "omove"} /\ result'[f] = "error"

\* task f has returned or raised
HasOutcome(f) == pc[f] \in {"done", "raised"}

\* C23: in organize a failure of one file (the destination directory cannot
\* be created, the source is gone, the move is refused) is that file's
\* outcome and nothing more: the failing step moves no file and leaves the
\* batch and every other task as they were, a task that has its outcome
\* never runs again (no second move attempt), the batch ends only when
\* every scanned file has its own outcome, and each failure is tallied as
\* one error.
C23_FailureIsolated ==
    /\ [](phase = "done" =>
            /\ \A f \in all_files : HasOutcome(f) /\ f \in collected
            /\ error_count = Cardinality(Failed))
    /\ [][ /\ \A f \in all_files :
                FailsNow(f) =>
                    /\ fs' = fs
                    /\ phase' = phase
                    /\ collected' = collected
                    /\ \A g \in all_files \ {f} :
                          pc'[g] = pc[g] /\ result'[g] = result[g]
        /\ \A f \in all_files :
                HasOutcome(f) => pc'[f] = pc[f] /\ result'[f] = result[f] ]_vars

\* a completed batch in which one move was refused and another file was
\* moved after that
C23_Witness ==
    /\ phase = "done"
    /\ \E f, g \in all_files :
          /\ pc[f] = "done" /\ result[f] = "error"
          /\ f \in DOMAIN fs
          /\ result[g] = "success"
          /\ new_path[g] \in DOMAIN fs
    /\ error_count = 1
    /\ organized_count >= 1

\* the candidates the deletion loop has removed from the disk
SweepDeleted == SelectSeq(temp_files, LAMBDA f : f \notin c_files)

\* C24: deletion failures do not stop the sweep: while it deletes, the
\* attempts made so far are the deletions plus the failures; when it is
\* over, every candidate has had its one attempt, deleted_count is the
\* number of candidates that are gone, deleted_count plus the failures is
\* the number of candidates, and deleted_size is the sum of the sizes of the
\* files that are gone.
C24_SweepTally ==
    /\ c_phase \in {"deleting", "done"} =>
          /\ c_del_pos = deleted_count + Cardinality(c_failed)
          /\ c_failed = {temp_files[i] : i \in 1..c_del_pos} \cap c_files
    /\ c_phase = "done" =>
          /\ c_del_pos = Len(temp_files)
          /\ NoRepeats(temp_files)
          /\ deleted_count = Len(SweepDeleted)
          /\ deleted_count + Cardinality(c_failed) = Len(temp_files)
          /\ deleted_size = SumFileSizes(SweepDeleted)

\* three candidates: the first deletion failed, the two after it succeeded
C24_Witness ==
    /\ c_phase = "done"
    /\ Len(temp_files) = 3
    /\ c_failed = {temp_files[1]}
    /\ deleted_count = 2
    /\ deleted_size = temp_files[2].size + temp_files[3].size

-----------------------------------------------------------------------------
(* Consistency of the analysis *)

RECURSIVE CountSum(_, _)
\* the 'count' fields of a category table, added up over the keys K
CountSum(table, K) ==
    IF K = {} THEN 0
    ELSE LET k == CHOOSE x \in K : TRUE
         IN  table[k].count + CountSum(table, K \ {k})

RECURSIVE CategorySizeSum(_, _)
\* the 'size' fields of a category table, added up over the keys K
CategorySizeSum(table, K) ==
    IF K = {} THEN 0
    ELSE LET k == CHOOSE x \in K : TRUE
         IN  table[k].size + CategorySizeSum(table, K \ {k})

RECURSIVE FrequencySum(_, _)
\* the values of an extension Counter, added up over the keys K
FrequencySum(table, K) ==
    IF K = {} THEN 0
    ELSE LET k == CHOOSE x \in K : TRUE
         IN  table[k] + FrequencySum(table, K \ {k})

\* C25: the counts analyze reports are consistent in every run, also when the
\* stat of a scanned file fails: the total file count is the sum of the
\* category counts and the sum of the extension frequencies, and the total
\* size is the sum of the category sizes.
C25_CountsConsistent ==
    a_phase = "done" =>
        /\ file_stats.total_files =
              CountSum(file_stats.categories, DOMAIN file_stats.categories)
        /\ file_stats.total_files =
              FrequencySum(file_stats.extensions, DOMAIN file_stats.extensions)
        /\ file_stats.total_size =
              CategorySizeSum(file_stats.categories, DOMAIN file_stats.categories)

-----------------------------------------------------------------------------
(* Classification *)

\* the first category, in iteration order, whose list holds the extension
FirstMatch(table, file_ext) ==
    LET hits == {i \in 1..Len(table) : file_ext \in table[i].exts}
    IN  IF hits = {} THEN NoCategory
        ELSE table[CHOOSE i \in hits : \A j \in hits : i <= j].name

\* C26: the category a task chooses is a function of the extension and the
\* table alone: it is the first category in iteration order whose list holds
\* the extension, and Others when no list holds it and the extension is not
\* empty; so every task, whenever it runs and whatever the other tasks do,
\* chooses the same category, and organize and analyze agree on every
\* non-empty extension.
C26_FirstMatch ==
    /\ \A c \in DOMAIN k_pc :
          (k_pc[c] = "returned" /\ FirstMatch(k_table, k_ext) # NoCategory) =>
              k_category[c] = FirstMatch(k_table, k_ext)
    /\ \A c \in DOMAIN k_pc :
          (k_pc[c] = "returned" /\ FirstMatch(k_table, k_ext) = NoCategory
             /\ k_ext # "") =>
              k_category[c] = "Others"
    /\ \A c, d \in DOMAIN k_pc :
          (k_pc[c] = "returned" /\ k_pc[d] = "returned" /\ k_ext # "") =>
              k_category[c] = k_category[d]

\* two categories list the extension; all three tasks have returned and
\* chose the first of them
C26_Witness ==
    /\ Len(k_table) = 2
    /\ k_ext \in k_table[1].exts \cap k_table[2].exts
    /\ \A c \in DOMAIN k_pc : k_pc[c] = "returned" /\ k_category[c] = k_table[1].name
    /\ DOMAIN k_pc = OrganizeCallers \cup AnalyzeCallers

-----------------------------------------------------------------------------
(* Files without extension *)

NoExtension(f) == Lower(f.ext) = ""

\* the scanned files without extension whose stat() succeeded
StattedNoExtension == {f \in Statted : NoExtension(f)}

\* C27: organize leaves a file without extension alone: it stays at its
\* path with its content, the step that handles it creates no directory and
\* moves nothing, its outcome is skipped, and it is in neither the success
\* nor the error tally.  Analyze counts it (its stat() having succeeded): in
\* the total, in the Others category and under the empty extension.
C27_NoExtensionSkipped ==
    /\ [](/\ \A f \in all_files :
                NoExtension(f) =>
                    /\ f \in DOMAIN fs
                    /\ pc[f] \in {"pending", "done"}
                    /\ (pc[f] = "done" => result[f] = "skipped")
          /\ phase = "done" =>
                organized_count + error_count =
                    Cardinality({f \in all_files : ~NoExtension(f)})
          /\ (a_phase = "done" /\ StattedNoExtension # {}) =>
                /\ file_stats.total_files = Len(a_all_files)
                /\ \A f \in StattedNoExtension :
                      /\ a_result[f] # NoRecord
                      /\ a_result[f].category = "Others"
                      /\ a_result[f].extension = ""
                /\ "" \in DOMAIN file_stats.extensions
                /\ file_stats.extensions[""] = Cardinality(StattedNoExtension)
                /\ "Others" \in DOMAIN file_stats.categories
                /\ file_stats.categories["Others"].count =
                      Cardinality({f \in Statted : CategoryOf(f) = "Others"}))
    /\ [][\A f \in all_files :
            NoExtension(f) =>
                /\ f \in DOMAIN fs' /\ fs'[f] = fs[f]
                /\ pc'[f] # pc[f] => (dirs' = dirs /\ fs' = fs) ]_vars

\* organize is over: the file without extension was skipped and is where it
\* was, while another file was moved into its category directory
C27_Witness ==
    /\ phase = "done"
    /\ \E f, g \in all_files :
          /\ NoExtension(f) /\ result[f] = "skipped" /\ f \in DOMAIN fs
          /\ result[g] = "success" /\ g \notin DOMAIN fs
    /\ organized_count = 1
    /\ error_count = 0

-----------------------------------------------------------------------------
(* The end-to-end scenario *)

\* C28: each operation run on a fresh directory with a.jpg, b.jpg (the bytes
\* of a.jpg), c.pdf and d.tmp, every file being readable and every move
\* allowed: analyze reports 4 files, Images 2, Documents 1, Others 1;
\* find-duplicates reports exactly one group, of the two files a.jpg and
\* b.jpg; sweep reports exactly one candidate, d.tmp; organize ends with
\* root/Images/a.jpg, root/Images/b.jpg, root/Documents/c.pdf and
\* root/Others/d.tmp and nothing else, for any worker count.
C28_EndToEnd ==
    /\ (Range(a_all_files) = Scenario /\ a_unstatable = {} /\ a_phase = "done") =>
          /\ file_stats.total_files = 4
          /\ DOMAIN file_stats.categories = {"Images", "Documents", "Others"}
          /\ file_stats.categories["Images"].count = 2
          /\ file_stats.categories["Documents"].count = 1
          /\ file_stats.categories["Others"].count = 1
    /\ (Range(d_all_files) = Scenario /\ Grouped /\ Unhashed = {}) =>
          /\ Len(duplicates) = 1
          /\ Len(hash_to_files[duplicates[1]]) = 2
          /\ Members(duplicates[1]) = {P(Root, "a", ".jpg"), P(Root, "b", ".jpg")}
          /\ d_phase = "returned" => total_duplicates = 1
    /\ (c_files \cup Range(temp_files) = SweepScenario /\ c_denied = {}
          /\ c_phase \in {"reported", "cancelled", "deleting", "done"}) =>
          /\ Len(temp_files) = 1
          /\ temp_files[1].name = <<"d", ".", "t", "m", "p">>
          /\ c_reported.count = 1
    /\ (all_files = Scenario /\ phase = "done" /\ error_count = 0) =>
          /\ DOMAIN fs = {P(<<"root", "Images">>, "a", ".jpg"),
                          P(<<"root", "Images">>, "b", ".jpg"),
                          P(<<"root", "Documents">>, "c", ".pdf"),
                          P(<<"root", "Others">>, "d", ".tmp")}
          /\ fs[P(<<"root", "Images">>, "a", ".jpg")] = ScenarioContent[P(Root, "a", ".jpg")]
          /\ fs[P(<<"root", "Images">>, "b", ".jpg")] = ScenarioContent[P(Root, "b", ".jpg")]
          /\ fs[P(<<"root", "Documents">>, "c", ".pdf")] = ScenarioContent[P(Root, "c", ".pdf")]
          /\ fs[P(<<"root", "Others">>, "d", ".tmp")] = ScenarioContent[P(Root, "d", ".tmp")]
          /\ organized_count = 4

\* organize has run on the scenario directory with two workers and moved
\* all four files
C28_Witness ==
    /\ all_files = Scenario
    /\ max_workers = 2
    /\ phase = "done"
    /\ organized_count = 4
    /\ P(<<"root", "Others">>, "d", ".tmp") \in DOMAIN fs

-----------------------------------------------------------------------------
(* The two passes of the scan *)

\* the directories the pre-pass can find: the root, and every directory or
\* symbolic link to a directory whose parents, up to the root, are real
\* directories that can be listed
FoundDirs ==
    {Root} \cup
    {d \in s_dirs \cup {l.link : l \in s_links} :
        Len(d) > 1 /\ \A k \in 1..(Len(d) - 1) : SubSeq(d, 1, k) \in s_dirs \ s_denied}

\* the tasks that have been dispatched
Dispatched == {d \in DOMAIN s_pc : s_pc[d] # "pending"}

\* what the two passes keep true when the list holds dirs_found: nothing is
\* dispatched before the list is built, a listing task exists for each of
\* its entries and for nothing else, each task returns files of its own
\* directory only, the progress total is the length of the list and the
\* completed count stays within it
TwoPasses(dirs_found) ==
    /\ s_phase = "start" => (Dispatched = {} /\ completed_dirs = 0)
    /\ (s_phase # "start" /\ Root \in s_dirs) =>
          /\ Range(directories) = dirs_found
          /\ NoRepeats(directories)
          /\ DOMAIN s_pc = Range(directories)
          /\ \A d \in DOMAIN s_pc : Range(local_files[d]) \subseteq FilesIn(d)
          /\ scan_total = Len(directories)
          /\ completed_dirs = Cardinality(s_collected)
          /\ completed_dirs <= scan_total
          /\ (s_phase = "done" => completed_dirs = scan_total)

\* once built, the list and the total never change
ListIsFinal ==
    s_phase # "start" => (directories' = directories /\ scan_total' = scan_total)

\* C29 as stated: the list built before any listing task is dispatched holds
\* the root and every subdirectory of the tree, each once; one non-recursive
\* listing task is submitted per directory, the progress total is their
\* number and the completed count never exceeds it.
C29_TwoPass ==
    /\ []TwoPasses(s_dirs \cup {l.link : l \in s_links})
    /\ [][ListIsFinal]_vars

\* C29 amended: the list built before any listing task is dispatched holds
\* the root and every directory (or symbolic link to one) that is reached
\* from the root through directories that can be listed, each path once;
\* one non-recursive listing task is submitted per entry, the progress total
\* is their number and the completed count never exceeds it.
C29_TwoPassReached ==
    /\ []TwoPasses(FoundDirs)
    /\ [][ListIsFinal]_vars

\* the root cannot be listed, so that its subdirectory is not found: the one
\* task, for the root, has been collected and the scan is over
C29_Witness ==
    /\ s_phase = "done"
    /\ s_denied = {Root}
    /\ <<"root", "a">> \in s_dirs
    /\ directories = <<Root>>
    /\ scan_total = 1
    /\ completed_dirs = 1

-----------------------------------------------------------------------------
(* The merge of the workers' results *)

RECURSIVE LocalLengthSum(_)
\* the lengths of the local lists of the directories D, added up
LocalLengthSum(D) ==
    IF D = {} THEN 0
    ELSE LET d == CHOOSE x \in D : TRUE
         IN  Len(local_files[d]) + LocalLengthSum(D \ {d})

\* a step of a worker task of one of the four pools
WorkerStep ==
    \/ s_pc' # s_pc /\ s_phase = "scanning"
    \/ pc' # pc \/ new_path' # new_path \/ counter' # counter \/ result' # result
    \/ d_pc' # d_pc \/ d_hash' # d_hash
    \/ a_pc' # a_pc \/ a_result' # a_result

\* the structures the collecting thread merges into
mergedVars ==
    <<s_all_files, organized_count, error_count, hash_to_files, hash_order,
      file_stats>>

\* C30: the merge is race-free: no step of a worker task changes the scanned
\* list, the organize tallies, the digest-to-files map or the statistics;
\* they change only as the collecting thread consumes a completed task.  So
\* at any moment the scanned list is as long as the local lists collected so
\* far taken together (all of them when the scan is over), and the tallies,
\* the map and the statistics account for every task consumed so far.
C30_MergeRaceFree ==
    /\ [](/\ Len(s_all_files) = LocalLengthSum(s_collected)
          /\ (s_phase = "done" /\ Root \in s_dirs) =>
                Len(s_all_files) = LocalLengthSum(DOMAIN s_pc)
          /\ organized_count = Cardinality(Succeeded \cap collected)
          /\ error_count = Cardinality(Failed \cap collected)
          /\ GroupedCount(hash_order) =
                Cardinality({f \in d_collected : d_hash[f] # None})
          /\ a_phase \in {"analyzing", "done"} =>
                /\ file_stats.total_size = SizeSum(a_collected \ a_unstatable)
                /\ FrequencySum(file_stats.extensions, DOMAIN file_stats.extensions)
                      = Cardinality(a_collected \ a_unstatable))
    /\ [][WorkerStep => UNCHANGED mergedVars]_vars

\* a finished scan of three directories by two workers: every local list was
\* merged, the root's not first
C30_Witness ==
    /\ s_phase = "done"
    /\ s_workers = 2
    /\ Cardinality(s_collected) = 3
    /\ \A d \in s_collected : Len(local_files[d]) = 1
    /\ Len(s_all_files) = 3
    /\ s_all_files[1].dir # Root

-----------------------------------------------------------------------------
(* The largest files *)

\* the paths in the largest-files list
LargestPaths == {file_stats.largest_files[i][1] : i \in 1..Len(file_stats.largest_files)}

\* C31: the largest-files list analyze ends with has at most 10 entries, is
\* sorted by size in non-increasing order, holds no file twice and only
\* stat-ed files with their size, and no stat-ed file outside the list is
\* larger than the smallest entry of the list.
C31_LargestFiles ==
    a_phase = "done" =>
        LET L == file_stats.largest_files
        IN  /\ Len(L) <= 10
            /\ Len(L) = IF Cardinality(Statted) < 10 THEN Cardinality(Statted) ELSE 10
            /\ \A i \in 1..(Len(L) - 1) : L[i][2] >= L[i + 1][2]
            /\ \A i, j \in 1..Len(L) : L[i][1] = L[j][1] => i = j
            /\ \A i \in 1..Len(L) :
                  L[i][1] \in Statted /\ L[i][2] = AnaStat[L[i][1]].st_size
            /\ \A f \in Statted \ LargestPaths :
                  Len(L) > 0 /\ AnaStat[f].st_size <= L[Len(L)][2]

\* eleven stat-ed files: the list was cut to ten, and the file left out is
\* one of the smallest
C31_Witness ==
    /\ a_phase = "done"
    /\ Cardinality(Statted) = 11
    /\ Len(file_stats.largest_files) = 10
    /\ file_stats.largest_files[1][2] = 4
    /\ file_stats.largest_files[10][2] = 1
    /\ \E f \in Statted \ LargestPaths : AnaStat[f].st_size = 1

-----------------------------------------------------------------------------
(* A directory that changes while find-duplicates runs *)

\* C32: find-duplicates tolerates a member of a duplicate group, its first
\* member in particular, that has disappeared after hashing: it never ends in
\* an unhandled error, and goes on to report and process the other groups.
C32_ToleratesVanished ==
    /\ d_phase # "crashed"
    /\ d_phase \in {"returned", "removing", "removed"} =>
          (duplicates # <<>> => total_duplicates = SumDupes(duplicates))

-----------------------------------------------------------------------------
(* Organize run on its own output *)

\* a file is where a complete run of organize leaves it: in the directory of
\* its category (Others when it has none), or anywhere when it has no
\* extension
IsOrganized(f) == f.dir \in RouteDir(f) \/ NoExtension(f)

\* C33: organize is idempotent on its own output: run on a root that a
\* complete run has organized, it ends with every file at the path, and so
\* under the name, it had.
C33_Idempotent ==
    (phase = "done" /\ \A f \in all_files : IsOrganized(f)) =>
        \A f \in all_files : f \in DOMAIN fs /\ result[f] # "success"

-----------------------------------------------------------------------------
(* Conservation of files by a single-worker organize *)

\* the content f had when organize was called
ContentBefore(f) == (Candidates @@ ScenarioContent)[f]

\* where organize says f is: its destination when the outcome is success,
\* its own path otherwise
PlaceOf(f) == IF result[f] = "success" THEN new_path[f] ELSE f

-----------------------------------------------------------------------------
(* The last copy of a content *)

\* the content the scanned path m led to when find-duplicates was called
ContentAtCall(m) == DupContent[IF m \in DOMAIN DupAlias THEN DupAlias[m] ELSE m]

\* some member of the group h still leads to a file with the content c
CopyLeft(h, c) ==
    \E q \in Members(h) : FileAt(q) /\ d_fs[Resolve(q)] = c

\* the members of the group h all led to the same content at the call
OneContent(h) ==
    \A m, n \in Members(h) : ContentAtCall(m) = ContentAtCall(n)

\* C35: a confirmed removal never destroys the last copy of a content: when
\* it is over, every reported group of one content still has a path that
\* leads to a file with that content, also when two scanned paths lead to
\* one file through a symbolic link.
C35_LastCopyKept ==
    d_phase = "removed" =>
        \A h \in Range(duplicates) :
            OneContent(h) => \A m \in Members(h) : CopyLeft(h, ContentAtCall(m))

-----------------------------------------------------------------------------
(* The operations that only read *)

\* everything the model holds of the files and directories on disk
FilesystemVars ==
    <<fs, dirs, s_dirs, s_files, s_links, s_denied, d_root, d_fs, d_alias,
      c_dirs, c_files, c_denied, a_root, a_unstatable>>

\* scan or analyze is running, or find-duplicates is outside its removal
\* loop
ReadingOnly ==
    \/ s_phase # "idle"
    \/ a_phase # "idle"
    \/ d_phase \notin {"idle", "removing"}

\* find-duplicates has ended without a removal and the files are those it
\* was called on
DupLeftAsFound ==
    d_phase \in {"returned", "noroot", "crashed"} =>
        d_fs = [p \in DOMAIN d_pc \ DOMAIN d_alias |-> DupContent[p]]

\* C36: scan, analyze and find-duplicates without removal are read-only: no
\* step of theirs creates, moves, renames or deletes a file or a directory,
\* and the files after find-duplicates without removal are the files before
\* it.
C36_ReadOnly ==
    []DupLeftAsFound /\ [][ReadingOnly => UNCHANGED FilesystemVars]_vars

\* find-duplicates reported a group of duplicates and returned without
\* removing anything
C36_Witness ==
    /\ d_phase = "returned"
    /\ duplicates # <<>>
    /\ total_duplicates > 0
    /\ unlink_calls = <<>>

-----------------------------------------------------------------------------
(* Organize that does not go ahead *)

\* the files and directories organize was called on
FilesAtCall == [p \in all_files |-> ContentBefore(p)]

DirsAtCall == {Root} \cup {p.dir : p \in all_files}

\* C37: when the confirmation is declined, or the scan found no file,
\* organize changes nothing: the files and the directories are those it was
\* called on (no category directory was created, no file was moved) and no
\* task was started.
C37_NothingChanged ==
    phase \in {"cancelled", "empty"} =>
        /\ fs = FilesAtCall
        /\ dirs = DirsAtCall
        /\ \A f \in all_files : pc[f] = "pending" /\ result[f] = "none"
        /\ organized_count = 0

\* a declined organize of a directory holding a file that has a category
\* and one that has none, none of them in its category directory
C37_Witness ==
    /\ phase = "cancelled"
    /\ \E f \in all_files : Classify(Lower(f.ext)) # NoCategory /\ ~IsOrganized(f)
    /\ \E f \in all_files :
          /\ Classify(Lower(f.ext)) = NoCategory
          /\ ~NoExtension(f)
          /\ Append(Root, "Others") \notin dirs

-----------------------------------------------------------------------------
(* Every sweep candidate once *)

\* the name passes the suffix test and the pattern test
PassesBothTests(name) ==
    /\ \E i \in 1..Len(temp_extensions) : EndsWith(name, temp_extensions[i])
    /\ \E i \in 1..Len(name_patterns) : Contains(LowerName(name), name_patterns[i])

\* C38: every sweep candidate is listed and sized once: the candidate list
\* never holds a file twice, also one that passes both tests, the total is
\* the sum of the sizes of the listed files, each taken once, and the count
\* reported is the number of distinct qualifying files the sweep reaches.
C38_ListedOnce ==
    /\ NoRepeats(temp_files)
    /\ total_size = SumFileSizes(temp_files)
    /\ c_phase = "reported" =>
          /\ Range(temp_files) = SweepCandidates
          /\ c_reported.count = Cardinality(SweepCandidates)
          /\ c_reported.size = SumFileSizes(SelectSeq(SweepOrder,
                                   LAMBDA f : f \in SweepCandidates))

\* the report of a sweep that listed temp.tmp, which passes both tests, and
\* another candidate
C38_Witness ==
    /\ c_phase = "reported"
    /\ \E f \in Range(temp_files) :
          f.name = <<"t", "e", "m", "p", ".", "t", "m", "p">> /\ PassesBothTests(f.name)
    /\ Len(temp_files) >= 2

====
